---- MODULE Spec2Model ----
(***************************************************************************)
(* A model of ecexams-dl: the web job manager of app.py (/start, /stop,    *)
(* run_job and its worker pool), the download stage, the fetch client      *)
(* _get / safe_get, and the index extractor's filters.                     *)
(***************************************************************************)
EXTENDS Integers, Sequences, FiniteSets, TLC

\* ------------------------------------------------------------------ bounds
\* Number of /start requests that are accepted (each creates one run_job thread).
MaxJobs == 2
\* Longest file-descriptor list handed to the download stage in SpecDL.
MaxFiles == 3
\* Largest worker pool of the download stage in SpecDL.
MaxThreads == 2
\* the number of tokens in the varied end of an input string of SpecText
MaxTail == 3
\* how far below 1 and above the pool's largest size the caller's thread counts go
MaxOver == 20
\* the number of calls of the fetch client made one after the other in SpecGet
MaxCalls == 2

\* --------------------------------------------------------- program constants
MAX_RETRY == 3

JobIds == 1..MaxJobs

VARIABLES
    \* app.py module globals
    _job_active,    \* BOOLEAN
    _job_queue,     \* 0 (None) or the id of the queue made by the last accepted /start
    _job_thread,    \* 0 (None) or the id of the thread made by the last accepted /start
    queues,         \* queue id -> job thread -> the events that thread has put on it, in order
    \* run_job locals, per job thread
    pc,             \* position of the thread in run_job
    q,              \* the queue captured at line 183 (0: not yet)
    cfg,            \* arguments of run_job
    index_r,        \* r of scrape_index (line 79): "none" before the call, then "ok" or "failed"
    sessions,       \* list returned by scrape_index
    si,             \* index of the next session to scan
    all_files,      \* list of file descriptors
    task,           \* per descriptor: state of its future
    tres,           \* per descriptor: value returned by download_file
    counts,         \* counts dict of line 203
    done,           \* done of line 211
    \* environment
    fs,             \* destination paths at which a file exists
    dirs,           \* directories that exist
    net,            \* [fixed, down]: when fixed, every call for the URL of a descriptor in
                    \* down fails and every other call succeeds at once; else any answer
    ioFaults,       \* whether mkdir / write_bytes may raise OSError
    \* history (not read by the program)
    stopped,        \* the last started job, once a /stop was handled while it executes (else 0)
    run,            \* SpecDL: which run of the download stage this is
    prev,           \* SpecDL: outcomes of the previous run
    fs0,            \* SpecDL: the destination tree at the start of the current run
    \* one call of the fetch client and one call of scrape_index, statement by statement
    get,            \* SpecGet: [client, pc, attempt, ret, log] of a _get / safe_get call, with
                    \* call, the number of the call, and before, the attempts that failed
                    \* in the calls before it
    idx,            \* SpecIndex: [pc, grade_filters, year_filters, i, sessions] of scrape_index
    ses,            \* SpecExtract: [pc, es, i, files] of a scrape_session call
    fn,             \* SpecText: [pc, pre, tail, href, out, again] of the name functions
    ep,             \* SpecPool: [entry, pc, threads, pool] of an entry point building its pool
    http,           \* SpecWeb: [start, status]: the /start requests answered so far and the
                    \* status code of the last answer
    stream,         \* SpecStream: [pc, q, got] of the generate loop of one /stream request
    gr              \* SpecGrade: [pc, text, href, grade, year] of the classifiers; text is
                    \* the list of the words of the link text, href the name of the href

appvars == <<_job_active, _job_queue, _job_thread, queues, pc, q, cfg, index_r, sessions, si,
             all_files, task, tres, counts, done, fs, dirs, net, ioFaults, stopped,
             run, prev, fs0>>

vars == <<appvars, get, idx, ses, fn, ep, http, stream, gr>>

\* ------------------------------------------------------------ text helpers
\* Strings of the program are sequences of one-character strings.
UpperChars == <<"A","B","C","D","E","F","G","H","I","J","K","L","M",
                "N","O","P","Q","R","S","T","U","V","W","X","Y","Z">>
LowerChars == <<"a","b","c","d","e","f","g","h","i","j","k","l","m",
                "n","o","p","q","r","s","t","u","v","w","x","y","z">>
DigitChars == <<"0","1","2","3","4","5","6","7","8","9">>
SpaceChars == {" ", "\t", "\n", "\r"}
BadChars   == {"\\", "/", "*", "?", ":", "\"", "<", ">", "|"}

IsDigit(c) == \E i \in 1..Len(DigitChars) : DigitChars[i] = c
IsSpace(c) == c \in SpaceChars
IsWordChar(c) ==
    \/ IsDigit(c)
    \/ c = "_"
    \/ \E i \in 1..Len(UpperChars) : UpperChars[i] = c \/ LowerChars[i] = c

LowerChar(c) ==
    IF \E i \in 1..Len(UpperChars) : UpperChars[i] = c
    THEN LowerChars[CHOOSE i \in 1..Len(UpperChars) : UpperChars[i] = c]
    ELSE c

\* str.lower()
Lower(s) == [i \in 1..Len(s) |-> LowerChar(s[i])]

\* s[a..b] (1-based, inclusive), empty when a > b
Slice(s, a, b) == [i \in 1..(IF b >= a THEN b - a + 1 ELSE 0) |-> s[a + i - 1]]

\* sub occurs in s at position p
MatchAt(s, sub, p) ==
    /\ p >= 1
    /\ p + Len(sub) - 1 <= Len(s)
    /\ \A i \in 1..Len(sub) : s[p + i - 1] = sub[i]

\* `sub in s` of Python
Contains(s, sub) == \E p \in 1..(Len(s) + 1) : MatchAt(s, sub, p)

\* s.endswith(suf)
EndsWith(s, suf) == Len(suf) <= Len(s) /\ MatchAt(s, suf, Len(s) - Len(suf) + 1)

\* s.startswith(pre)
StartsWith(s, pre) == MatchAt(s, pre, 1)

\* the longest p' >= p such that every character of s[p..p'-1] satisfies Test
RECURSIVE SkipSpaces(_, _)
SkipSpaces(s, p) == IF p <= Len(s) /\ IsSpace(s[p]) THEN SkipSpaces(s, p + 1) ELSE p

RECURSIVE SkipDigits(_, _)
SkipDigits(s, p) == IF p <= Len(s) /\ IsDigit(s[p]) THEN SkipDigits(s, p + 1) ELSE p

\* re.sub(r'[\\/*?:"<>|]', "", name)
DropBad(s) == SelectSeq(s, LAMBDA c : c \notin BadChars)

\* whitespace left as it is
CollapseSpacesKeep(s) == s

\* re.sub(r"\s+", " ", name)
\* every character stays but a whitespace character that follows another one; the
\* whitespace character that opens a run becomes a space
CollapseSpaces(s) ==
    LET kept == SelectSeq([i \in 1..Len(s) |-> i],
                          LAMBDA i : ~(IsSpace(s[i]) /\ i > 1 /\ IsSpace(s[i - 1])))
    IN  [k \in 1..Len(kept) |-> IF IsSpace(s[kept[k]]) THEN " " ELSE s[kept[k]]]

\* str.strip()
RECURSIVE StripLeft(_)
StripLeft(s) == IF s # <<>> /\ IsSpace(Head(s)) THEN StripLeft(Tail(s)) ELSE s

RECURSIVE StripRight(_)
StripRight(s) ==
    IF s # <<>> /\ IsSpace(s[Len(s)]) THEN StripRight(Slice(s, 1, Len(s) - 1)) ELSE s

Strip(s) == StripRight(StripLeft(s))

\* name[:n]
Truncate(s, n) == Slice(s, 1, IF Len(s) < n THEN Len(s) ELSE n)

NAME_CAP == 120

_sanitise(name) == Truncate(Strip(CollapseSpaces(DropBad(name))), NAME_CAP)

\* _grade: the leftmost match of gr(?:ade)?\.?\s*(\d+) in the lower-cased text
GradeDigitsFrom(t, p) ==
    LET a == IF MatchAt(t, <<"a","d","e">>, p + 2) THEN p + 5 ELSE p + 2
        b == IF MatchAt(t, <<".">>, a) THEN a + 1 ELSE a
        c == SkipSpaces(t, b)
    IN  <<c, SkipDigits(t, c) - 1>>

GradeMatchAt(t, p) ==
    /\ MatchAt(t, <<"g","r">>, p)
    /\ GradeDigitsFrom(t, p)[2] >= GradeDigitsFrom(t, p)[1]

StrGrade9GEC == <<"G","r","a","d","e"," ","9"," ","(","G","E","C",")">>
StrANA == <<"A","N","A"," ","(","G","r","a","d","e","s"," ","1","-","6"," ","&"," ","9",")">>
StrOther == <<"O","t","h","e","r">>
StrGradePrefix == <<"G","r","a","d","e"," ">>
StrUnknownYear == <<"U","n","k","n","o","w","n"," ","Y","e","a","r">>

_grade(text) ==
    LET t == Lower(text)
        hits == {p \in 1..Len(t) : GradeMatchAt(t, p)}
    IN  IF hits # {}
        THEN LET p == CHOOSE x \in hits : \A y \in hits : x <= y
                 d == GradeDigitsFrom(t, p)
             IN  StrGradePrefix \o Slice(t, d[1], d[2])
        ELSE IF \/ Contains(t, <<"g","e","c">>)
                \/ Contains(t, <<"g","e","n","e","r","a","l"," ","e","d","u","c","a","t","i","o","n",
                                 " ","c","e","r","t","i","f","i","c","a","t","e">>)
        THEN StrGrade9GEC
        ELSE IF \/ Contains(t, <<"a","n","n","u","a","l"," ","n","a","t","i","o","n","a","l"," ",
                                 "a","s","s","e","s","s","m","e","n","t">>)
                \/ Contains(t, <<" ","a","n","a">>)
        THEN StrANA
        ELSE StrOther

\* _year: the leftmost match of \b(20\d{2})\b
YearMatchAt(s, p) ==
    /\ p + 3 <= Len(s)
    /\ s[p] = "2" /\ s[p + 1] = "0" /\ IsDigit(s[p + 2]) /\ IsDigit(s[p + 3])
    /\ (p = 1 \/ ~IsWordChar(s[p - 1]))
    /\ (p + 3 = Len(s) \/ ~IsWordChar(s[p + 4]))

_year(text) ==
    LET hits == {p \in 1..Len(text) : YearMatchAt(text, p)}
    IN  IF hits # {}
        THEN LET p == CHOOSE x \in hits : \A y \in hits : x <= y
             IN  Slice(text, p, p + 3)
        ELSE StrUnknownYear


\* ------------------------------------------------------------- URL helpers
BASE_URL == <<"h","t","t","p","s",":","/","/","w","w","w",".","e","c","e","x","a","m","s",
              ".","c","o",".","z","a","/">>
INDEX_URL == BASE_URL \o <<"E","x","a","m","i","n","a","t","i","o","n","P","a","p","e","r","s",
                           ".","h","t","m">>
StrHttp  == <<"h","t","t","p",":","/","/">>
StrHttps == <<"h","t","t","p","s",":","/","/">>

\* positions of character c in s
Positions(s, c) == {i \in 1..Len(s) : s[i] = c}
SetMax(S) == CHOOSE x \in S : \A y \in S : y <= x
SetMin(S) == CHOOSE x \in S : \A y \in S : x <= y
LastIndexOf(s, c)  == IF Positions(s, c) = {} THEN 0 ELSE SetMax(Positions(s, c))
FirstIndexOf(s, c) == IF Positions(s, c) = {} THEN 0 ELSE SetMin(Positions(s, c))

IsAbsolute(href) == StartsWith(href, StrHttp) \/ StartsWith(href, StrHttps)

\* scheme://host of an absolute URL
Origin(url) ==
    LET start == IF StartsWith(url, StrHttps) THEN Len(StrHttps) + 1 ELSE Len(StrHttp) + 1
        rest  == Slice(url, start, Len(url))
        slash == FirstIndexOf(rest, "/")
    IN  IF slash = 0 THEN url ELSE Slice(url, 1, start + slash - 2)

\* urljoin(base, href) for an absolute base: an absolute href replaces the base, a
\* href starting with "/" replaces the base's path, any other href replaces what
\* follows the last "/" of the base
urljoin(base, href) ==
    IF IsAbsolute(href) THEN href
    ELSE IF StartsWith(href, <<"/">>) THEN Origin(base) \o href
    ELSE Slice(base, 1, LastIndexOf(base, "/")) \o href

\* urlparse(href).path: without scheme and host, query and fragment
UrlPath(href) ==
    LET noFrag == IF FirstIndexOf(href, "#") = 0 THEN href
                  ELSE Slice(href, 1, FirstIndexOf(href, "#") - 1)
        noQry  == IF FirstIndexOf(noFrag, "?") = 0 THEN noFrag
                  ELSE Slice(noFrag, 1, FirstIndexOf(noFrag, "?") - 1)
    IN  IF IsAbsolute(noQry)
        THEN Slice(noQry, Len(Origin(noQry)) + 1, Len(noQry))
        ELSE noQry

\* Path(p).name, .suffix and .stem
PathName(p) == Slice(p, LastIndexOf(p, "/") + 1, Len(p))

PathSuffix(p) ==
    LET name == PathName(p)
        dot  == LastIndexOf(name, ".")
    IN  IF dot > 1 /\ dot < Len(name) THEN Slice(name, dot, Len(name)) ELSE <<>>

PathStem(p) ==
    LET name == PathName(p)
    IN  Slice(name, 1, Len(name) - Len(PathSuffix(p)))

ExtPdf  == <<".","p","d","f">>
ExtZip  == <<".","z","i","p">>
ExtDocx == <<".","d","o","c","x">>
ExtHtm  == <<".","h","t","m">>
FileExts == {ExtPdf, ExtZip, ExtDocx}


\* ------------------------------------------------------------- extractors
\* A page is the sequence of its <a href> elements, each [href, text].

\* scrape_index, lines 88-99: the link is a candidate session link
IsCandidate(a) ==
    LET href == Strip(a.href)
        text == Strip(a.text)
    IN  /\ ~StartsWith(href, <<"m","a","i","l","t","o",":">>)
        /\ ~StartsWith(href, StrHttp \o <<"b","i","t",".","l","y">>)
        /\ ~StartsWith(href, StrHttps \o <<"b","i","t",".","l","y">>)
        /\ ~StartsWith(href, <<"#">>)
        /\ EndsWith(href, ExtHtm)
        /\ urljoin(BASE_URL, href) # INDEX_URL
        /\ Len(text) >= 5

\* a year taken from the href alone
YearOfHref(text, href) == _year(href)

\* scrape_index, line 101: the year of the link text, else the year of the href
YearOf(text, href) == IF _year(text) # StrUnknownYear THEN _year(text) ELSE _year(href)

\* scrape_index, line 102: the grade of the link text followed by the href
GradeOf(text, href) == _grade(text \o <<" ">> \o href)

\* scrape_index, lines 93-103 and 112: the session dict of a candidate link
SessionOf(a) ==
    LET href == Strip(a.href)
        text == Strip(a.text)
    IN  [url   |-> urljoin(BASE_URL, href),
         title |-> _sanitise(text),
         grade |-> GradeOf(text, href),
         year  |-> YearOf(text, href)]

\* scrape_index, line 105: `any(gf in grade for gf in grade_filters)` unless empty
GradePasses(grade, grade_filters) ==
    grade_filters = <<>> \/ \E i \in 1..Len(grade_filters) : Contains(grade, grade_filters[i])

\* scrape_index, line 107: `year in year_filters` unless empty
YearPasses(year, year_filters) ==
    year_filters = <<>> \/ \E i \in 1..Len(year_filters) : year_filters[i] = year

\* scrape_index, lines 87-112: one iteration of the loop over the page's links;
\* acc holds the positions in the page of the links kept so far
IndexStep(acc, page, i, grade_filters, year_filters) ==
    IF ~IsCandidate(page[i]) THEN acc
    ELSE IF ~GradePasses(SessionOf(page[i]).grade, grade_filters) THEN acc
    ELSE IF ~YearPasses(SessionOf(page[i]).year, year_filters) THEN acc
    ELSE IF \E k \in 1..Len(acc) : SessionOf(page[acc[k]]).url = SessionOf(page[i]).url THEN acc
    ELSE Append(acc, i)

RECURSIVE IndexLoop(_, _, _, _, _)
IndexLoop(page, i, acc, grade_filters, year_filters) ==
    IF i > Len(page) THEN acc
    ELSE IndexLoop(page, i + 1, IndexStep(acc, page, i, grade_filters, year_filters),
                   grade_filters, year_filters)

\* scrape_index on a fetched page: the positions of the links whose session is returned
IndexKept(page, grade_filters, year_filters) ==
    IndexLoop(page, 1, <<>>, grade_filters, year_filters)

\* scrape_index on a fetched page: the list of sessions
IndexSessions(page, grade_filters, year_filters) ==
    LET kept == IndexKept(page, grade_filters, year_filters)
    IN  [k \in 1..Len(kept) |-> SessionOf(page[kept[k]])]

\* scrape_session, lines 138-141: the filename of a file link
FileNameOf(a) ==
    LET href == Strip(a.href)
        ext  == Lower(PathSuffix(UrlPath(href)))
        raw  == IF Strip(a.text) # <<>> THEN Strip(a.text) ELSE PathStem(UrlPath(href))
        name == _sanitise(raw)
    IN  IF EndsWith(Lower(name), ext) THEN name ELSE name \o ext

\* the loop body without the `seen` set
SessionStepNoSeen(acc, a, es) ==
    IF Lower(PathSuffix(UrlPath(Strip(a.href)))) \notin FileExts THEN acc
    ELSE Append(acc, [url |-> urljoin(es.url, Strip(a.href)), filename |-> FileNameOf(a),
                      exam_session |-> es])

\* scrape_session, lines 128-142: one iteration of the loop over the page's links
SessionStep(acc, a, es) ==
    LET href == Strip(a.href)
        ext  == Lower(PathSuffix(UrlPath(href)))
        file_url == urljoin(es.url, href)
    IN  IF ext \notin FileExts THEN acc
        ELSE IF \E i \in 1..Len(acc) : acc[i].url = file_url THEN acc
        ELSE Append(acc, [url |-> file_url, filename |-> FileNameOf(a), exam_session |-> es])

RECURSIVE SessionLoop(_, _, _, _)
SessionLoop(page, i, acc, es) ==
    IF i > Len(page) THEN acc
    ELSE SessionLoop(page, i + 1, SessionStep(acc, page[i], es), es)

\* scrape_session on a fetched page: the list of file descriptors
SessionFiles(page, es) == SessionLoop(page, 1, <<>>, es)

\* ------------------------------------------------------------------- site
\* The archive the jobs of Spec crawl: an index page and one page per session.
SitePage ==
    << [href |-> <<"g","1","2",".","h","t","m">>,
        text |-> <<"G","r","a","d","e"," ","1","2"," ","N","o","v"," ","2","0","2","3">>],
       [href |-> <<"E","x","a","m","i","n","a","t","i","o","n","P","a","p","e","r","s",".","h","t","m">>,
        text |-> <<"I","n","d","e","x"," ","p","a","g","e">>],
       [href |-> <<"g","e","c","/","2","0","2","1",".","h","t","m">>,
        text |-> <<"G","E","C"," ","P","a","p","e","r","s">>] >>

\* the page behind a session URL
SessionPage(url) ==
    IF url = BASE_URL \o <<"g","1","2",".","h","t","m">>
    THEN << [href |-> <<"a",".","p","d","f">>, text |-> <<"M","e","m","o">>],
            [href |-> <<"n","o","t","e","s",".","h","t","m","l">>, text |-> <<"N","o","t","e","s">>],
            [href |-> <<"b",".","p","d","f">>, text |-> <<"M","e","m","o">>] >>
    ELSE << [href |-> <<"c",".","Z","I","P">>, text |-> <<>>] >>

\* The file links of the session page the download stage of SpecDL is given: link k
\* points to f<k>.pdf; the first two links carry the same text, the others their own.
DLLink(k) ==
    [href |-> <<"f", DigitChars[k + 1], ".", "p", "d", "f">>,
     text |-> IF k <= 2 THEN <<"M","e","m","o">> ELSE <<"P", DigitChars[k + 1]>>]

DLPage == [k \in 1..(MaxFiles) |-> DLLink(k)]

\* The state keeps sessions and file descriptors by reference: a session is the
\* position i of its link in SitePage, a file descriptor is <<i, k>>, the k-th entry of
\* the list scrape_session returns for session i (<<0, k>>: the k-th descriptor of
\* DLPage, owned by session 1). The dicts themselves are looked up in these tables.
SiteSession == [i \in 1..Len(SitePage) |-> SessionOf(SitePage[i])]

SiteFiles == [i \in 1..Len(SitePage) |-> SessionFiles(SessionPage(SiteSession[i].url), SiteSession[i])]

DLFiles == SessionFiles(DLPage, SiteSession[1])

FD(ref) == IF ref[1] = 0 THEN DLFiles[ref[2]] ELSE SiteFiles[ref[1]][ref[2]]

AllRefs == {<<0, k>> : k \in 1..Len(DLFiles)}
           \cup UNION {{<<i, k>> : k \in 1..Len(SiteFiles[i])} : i \in 1..Len(SitePage)}

\* the references of the descriptors scrape_session returns for session i
RefsOf(i) == [k \in 1..Len(SiteFiles[i]) |-> <<i, k>>]

\* -------------------------------------------------------------- fetch client
\* What the network answers one _get call with: the number of attempts that fail
\* before one succeeds (MAX_RETRY or more: no attempt of the call succeeds).
FailChoices == {0, MAX_RETRY}

NetAnswers(url) ==
    IF ~net.fixed THEN FailChoices
    ELSE IF \E r \in net.down : FD(r).url = url THEN {MAX_RETRY}
    ELSE {0}

\* _get, lines 38-50, from attempt `attempt` on, when the first nfail attempts fail:
\* [ok: a response is returned, attempts: requests issued, warns: emit("warn") calls]
RECURSIVE GetLoop(_, _, _)
GetLoop(attempt, nfail, warns) ==
    IF attempt > MAX_RETRY THEN [ok |-> FALSE, attempts |-> attempt - 1, warns |-> warns]
    ELSE IF attempt > nfail THEN [ok |-> TRUE, attempts |-> attempt, warns |-> warns]
    ELSE IF attempt = MAX_RETRY
         THEN [ok |-> FALSE, attempts |-> attempt, warns |-> warns + 1]
         ELSE GetLoop(attempt + 1, nfail, warns + 1)

_get(nfail) == GetLoop(1, nfail, 0)

\* ------------------------------------------------------------------ events
\* An error event carries <<"index">> (line 82), <<"unexpected">> (line 227) or the
\* descriptor whose URL it names (line 162).
Ev(kind, j, data) == [kind |-> kind, job |-> j, data |-> data]

\* the warn events of one _get call
WarnEvents(j, n) == [i \in 1..n |-> Ev("warn", j, i)]

ZeroCounts == [downloaded |-> 0, skipped |-> 0, failed |-> 0, dryrun |-> 0]

\* run_job, lines 219-224: the done event of a job whose pool has drained
DoneEvent(j, c) == Ev("done", j, <<c.downloaded, c.skipped, c.failed, c.dryrun>>)

\* the except clause without its done event
ExceptEventsNoDone(j) == <<Ev("error", j, <<"unexpected">>)>>

\* run_job, lines 226-228: what the except clause emits
ExceptEvents(j) == <<Ev("error", j, <<"unexpected">>), Ev("done", j, <<0, 0, 0, 0>>)>>

\* the early return without its done event
NoSessionEventsNone(j) == <<>>

\* run_job, line 192: the done event when scrape_index returns no session
NoSessionEvents(j) == <<Ev("done", j, <<0, 0, 0, 0>>)>>

\* emit of run_job (lines 185-186): q.put on the queue captured at line 183
Emit(j, evs) == queues' = [queues EXCEPT ![q[j]][j] = @ \o evs]

\* ------------------------------------------------------------- filesystem
StrDownloads == <<"d","o","w","n","l","o","a","d","s">>

\* download_file, line 149
DestDir(root, fi) ==
    LET es == fi.exam_session
    IN  <<root, _sanitise(es.grade), es.year, _sanitise(es.title)>>

\* download_file, line 150
Dest(root, fi) == Append(DestDir(root, fi), fi.filename)

\* No request of the model names an output_dir, so every job writes under the
\* default root (start, line 249). fs and dirs keep a path as the first reference
\* whose descriptor has that path: two descriptors have the same id iff they have
\* the same destination path (directory).
DestTable ==
    [r \in AllRefs |->
        CHOOSE r2 \in AllRefs : Dest(StrDownloads, FD(r2)) = Dest(StrDownloads, FD(r))]

DirTable ==
    [r \in AllRefs |->
        CHOOSE r2 \in AllRefs : DestDir(StrDownloads, FD(r2)) = DestDir(StrDownloads, FD(r))]

DestId(ref) == DestTable[ref]
DirId(ref)  == DirTable[ref]

\* ---------------------------------------------------------- /start requests
\* JSON bodies of the /start requests
StartInputs ==
    { [grades |-> << <<"9">> >>, years |-> <<>>, dry_run |-> FALSE, threads |-> 2],
      [grades |-> << <<"7">> >>, years |-> <<>>, dry_run |-> FALSE, threads |-> 3],
      [grades |-> << <<"9">> >>, years |-> << <<"2","0","2","1">> >>,
       dry_run |-> TRUE, threads |-> 0] }

Max2(a, b) == IF a >= b THEN a ELSE b
Min2(a, b) == IF a <= b THEN a ELSE b

POOL_MAX == 10

\* start, line 251
ClampThreads(n) == Max2(1, Min2(POOL_MAX, n))

\* start, lines 246-254: the arguments of run_job
JobArgs(data) ==
    [grade_filters |-> [i \in 1..Len(data.grades) |-> StrGradePrefix \o data.grades[i]],
     year_filters  |-> data.years,
     output_dir    |-> StrDownloads,
     dry_run       |-> data.dry_run,
     threads       |-> ClampThreads(data.threads)]

NoArgs == [grade_filters |-> <<>>, year_filters |-> <<>>, output_dir |-> StrDownloads,
           dry_run |-> FALSE, threads |-> 1]

\* the arguments of a job that crawls the whole site (no filter)
AloneArgs ==
    {[NoArgs EXCEPT !.dry_run = d, !.threads = t] : d \in BOOLEAN, t \in 1..MaxThreads}

\* scrape_index (lines 84-112) on the site's index page, for each argument record a
\* request can give run_job
SiteKept ==
    [a \in {JobArgs(d) : d \in StartInputs} \cup AloneArgs |->
        IndexKept(SitePage, a.grade_filters, a.year_filters)]

\* ---------------------------------------------------------------- run_job
\* the variables no step of a job thread changes
JobFrame == UNCHANGED <<_job_queue, _job_thread, cfg, net, ioFaults, run, prev, fs0, get, idx, ses, fn, ep, http, stream, gr>>

Running(j) == {t \in 1..Len(task[j]) : task[j][t] \in {"fetch", "write"}}
Queued(j)  == {t \in 1..Len(task[j]) : task[j][t] = "queued"}

\* run_job, line 183: the thread reads the global _job_queue
RunJobBegin(j) ==
    /\ pc[j] = "begin"
    /\ q' = [q EXCEPT ![j] = _job_queue]
    /\ pc' = [pc EXCEPT ![j] = "index"]
    /\ JobFrame
    /\ UNCHANGED <<index_r, stopped, _job_active, queues, sessions, si, all_files, task, tres, counts, done,
                   fs, dirs>>

\* scrape_index (lines 76-115) as called at line 190, and lines 191-193
RunJobIndex(j) ==
    /\ pc[j] = "index"
    /\ \E nfail \in NetAnswers(INDEX_URL) :
         LET r   == _get(nfail)
             ss  == IF r.ok THEN SiteKept[cfg[j]] ELSE <<>>
             evs == <<Ev("info", j, "fetching")>> \o WarnEvents(j, r.warns)
                    \o (IF r.ok THEN <<Ev("info", j, Len(ss))>>
                        ELSE <<Ev("error", j, <<"index">>)>>)
         IN  /\ index_r' = [index_r EXCEPT ![j] = IF r.ok THEN "ok" ELSE "failed"]
             /\ sessions' = [sessions EXCEPT ![j] = ss]
             /\ IF ss = <<>>
                THEN /\ Emit(j, evs \o NoSessionEvents(j))
                     /\ pc' = [pc EXCEPT ![j] = "finally"]
                ELSE /\ Emit(j, evs)
                     /\ pc' = [pc EXCEPT ![j] = "scan"]
    /\ si' = [si EXCEPT ![j] = 1]
    /\ JobFrame
    /\ UNCHANGED <<stopped, _job_active, q, all_files, task, tres, counts, done, fs, dirs>>

\* the list of the last session alone
ExtendReplace(all, files) == files

\* run_job, line 198: all_files.extend(files)
Extend(all, files) == all \o files

\* run_job, lines 201-212: the total is announced, every descriptor is submitted
SubmitEvents(j, all) == <<Ev("info", j, Len(all))>>

\* a loop that is left after its first session
LastSessionFirst(j) == TRUE

\* run_job, line 196: the for loop ends with the last session of the list
LastSession(j) == si[j] = Len(sessions[j])

\* one iteration of the loop of lines 196-199: scrape_session (lines 118-144),
\* extend, progress event; after the last session, lines 201-212
RunJobScan(j) ==
    /\ pc[j] = "scan"
    /\ LET es   == sessions[j][si[j]]
           last == LastSession(j)
       IN  \E nfail \in NetAnswers(SiteSession[es].url) :
             LET r     == _get(nfail)
                 files == IF r.ok THEN RefsOf(es) ELSE <<>>
                 all   == Extend(all_files[j], files)
             IN  /\ all_files' = [all_files EXCEPT ![j] = all]
                 /\ Emit(j, <<Ev("scan", j, es)>> \o WarnEvents(j, r.warns)
                            \o <<Ev("progress", j, <<"scanned", Len(all)>>)>>
                            \o (IF last THEN SubmitEvents(j, all) ELSE <<>>))
                 /\ IF last
                    THEN /\ counts' = [counts EXCEPT ![j] = ZeroCounts]
                         /\ task' = [task EXCEPT ![j] = [t \in 1..Len(all) |-> "queued"]]
                         /\ tres' = [tres EXCEPT ![j] = [t \in 1..Len(all) |-> "none"]]
                         /\ done' = [done EXCEPT ![j] = 0]
                         /\ pc' = [pc EXCEPT ![j] = "pool"]
                    ELSE UNCHANGED <<counts, task, tres, done, pc>>
    /\ si' = [si EXCEPT ![j] = @ + 1]
    /\ JobFrame
    /\ UNCHANGED <<index_r, stopped, _job_active, q, sessions, fs, dirs>>

\* download_file without its exists check
DestExistsNever(fi) == FALSE

\* a dry run that reports nothing
DryRunEventsNone(j, fi) == <<>>

\* download_file, line 153
DryRunEvents(j, fi) == <<Ev("dryrun", j, DestId(fi))>>

\* download_file, line 156
DestExists(fi) == DestId(fi) \in fs

\* A pool thread takes the oldest queued descriptor and runs download_file up to
\* its fetch (lines 148-159): dry run, skip if the destination exists, mkdir
WorkerStart(j) ==
    /\ pc[j] \in {"pool", "unwind"}
    /\ Queued(j) # {}
    /\ Cardinality(Running(j)) < cfg[j].threads
    /\ LET t    == SetMin(Queued(j))
           fi   == all_files[j][t]
       IN  /\ IF cfg[j].dry_run
              THEN /\ Emit(j, DryRunEvents(j, fi))
                   /\ task' = [task EXCEPT ![j][t] = "ok"]
                   /\ tres' = [tres EXCEPT ![j][t] = "dryrun"]
                   /\ UNCHANGED dirs
              ELSE IF DestExists(fi)
              THEN /\ task' = [task EXCEPT ![j][t] = "ok"]
                   /\ tres' = [tres EXCEPT ![j][t] = "skipped"]
                   /\ UNCHANGED <<queues, dirs>>
              ELSE \/ /\ dirs' = dirs \cup {DirId(fi)}
                      /\ task' = [task EXCEPT ![j][t] = "fetch"]
                      /\ UNCHANGED <<queues, tres>>
                   \/ /\ ioFaults
                      /\ task' = [task EXCEPT ![j][t] = "exc"]
                      /\ UNCHANGED <<queues, tres, dirs>>
    /\ JobFrame
    /\ UNCHANGED <<index_r, stopped, _job_active, q, pc, sessions, si, all_files, counts, done, fs>>

\* a failed fetch that reports nothing
FailedEventsNone(j, fi) == <<>>

\* download_file, line 162
FailedEvents(j, fi) == <<Ev("error", j, fi)>>

\* download_file, lines 160-163: the fetch, and the failed outcome
WorkerFetch(j, t) ==
    /\ task[j][t] = "fetch"
    /\ LET fi == all_files[j][t]
       IN  \E nfail \in NetAnswers(FD(fi).url) :
                LET r == _get(nfail)
                IN  IF r.ok
                    THEN /\ Emit(j, WarnEvents(j, r.warns))
                         /\ task' = [task EXCEPT ![j][t] = "write"]
                         /\ UNCHANGED tres
                    ELSE /\ Emit(j, WarnEvents(j, r.warns) \o FailedEvents(j, fi))
                         /\ task' = [task EXCEPT ![j][t] = "ok"]
                         /\ tres' = [tres EXCEPT ![j][t] = "failed"]
    /\ JobFrame
    /\ UNCHANGED <<index_r, stopped, _job_active, q, pc, sessions, si, all_files, counts, done, fs, dirs>>

\* download_file, line 165: what dest.write_bytes can do
WriteResults(faults) ==
    IF faults THEN {"written", "open_failed", "write_failed"} ELSE {"written"}

\* download_file, lines 165-167: the write, and the downloaded outcome. write_bytes
\* opens the destination for writing, which creates the file, and then writes: when
\* it raises OSError the file is absent (the open failed) or present and incomplete
\* (the write failed).
WorkerWrite(j, t) ==
    /\ task[j][t] = "write"
    /\ LET fi == all_files[j][t]
       IN  \E w \in WriteResults(ioFaults) :
             /\ fs' = IF w = "open_failed" THEN fs ELSE fs \cup {DestId(fi)}
             /\ IF w = "written"
                THEN /\ Emit(j, <<Ev("download", j, fi)>>)
                     /\ task' = [task EXCEPT ![j][t] = "ok"]
                     /\ tres' = [tres EXCEPT ![j][t] = "downloaded"]
                ELSE /\ task' = [task EXCEPT ![j][t] = "exc"]
                     /\ UNCHANGED <<queues, tres>>
    /\ JobFrame
    /\ UNCHANGED <<index_r, stopped, _job_active, q, pc, sessions, si, all_files, counts, done, dirs>>

\* a tally that forgets the skipped outcome
TallyDropSkipped(c, result) == IF result = "skipped" THEN c ELSE [c EXCEPT ![result] = @ + 1]

\* run_job, line 215
Tally(c, result) == [c EXCEPT ![result] = @ + 1]

\* a counter that stays where it is
NextDoneSame(d) == d

\* run_job, line 216
NextDone(d) == d + 1

\* one iteration of the as_completed loop (lines 213-217) on a future that returned
RunJobCollect(j, t) ==
    /\ pc[j] = "pool"
    /\ task[j][t] = "ok"
    /\ counts' = [counts EXCEPT ![j] = Tally(@, tres[j][t])]
    /\ done' = [done EXCEPT ![j] = NextDone(@)]
    /\ Emit(j, <<Ev("progress", j, <<NextDone(done[j]), Len(all_files[j])>>)>>)
    /\ task' = [task EXCEPT ![j][t] = "collected"]
    /\ JobFrame
    /\ UNCHANGED <<index_r, stopped, _job_active, q, pc, sessions, si, all_files, tres, fs, dirs>>

\* line 214 on a future whose task raised: future.result() re-raises, and the
\* with block is left (the executor's shutdown then waits for the pool)
RunJobRaise(j, t) ==
    /\ pc[j] = "pool"
    /\ task[j][t] = "exc"
    /\ pc' = [pc EXCEPT ![j] = "unwind"]
    /\ JobFrame
    /\ UNCHANGED <<index_r, stopped, _job_active, queues, q, sessions, si, all_files, task, tres, counts,
                   done, fs, dirs>>

\* an executor left without waiting for its workers
ShutdownNoWait(j) == TRUE

\* run_job, line 209: leaving the with block is shutdown(wait=True), which returns
\* when every submitted task has run
Shutdown(j) == Queued(j) = {} /\ Running(j) = {}

\* the pool has drained after a raise: the except clause (lines 226-228) runs
RunJobExcept(j) ==
    /\ pc[j] = "unwind"
    /\ Shutdown(j)
    /\ Emit(j, ExceptEvents(j))
    /\ pc' = [pc EXCEPT ![j] = "finally"]
    /\ JobFrame
    /\ UNCHANGED <<index_r, stopped, _job_active, q, sessions, si, all_files, task, tres, counts,
                   done, fs, dirs>>

\* every future has been collected: lines 219-224
RunJobDone(j) ==
    /\ pc[j] = "pool"
    /\ \A t \in 1..Len(task[j]) : task[j][t] = "collected"
    /\ Emit(j, <<DoneEvent(j, counts[j])>>)
    /\ pc' = [pc EXCEPT ![j] = "finally"]
    /\ JobFrame
    /\ UNCHANGED <<index_r, stopped, _job_active, q, sessions, si, all_files, task, tres, counts,
                   done, fs, dirs>>

\* run_job, lines 229-230
RunJobFinally(j) ==
    /\ pc[j] = "finally"
    /\ _job_active' = FALSE
    /\ pc' = [pc EXCEPT ![j] = "finished"]
    /\ stopped' = IF stopped = j THEN 0 ELSE stopped
    /\ JobFrame
    /\ UNCHANGED <<index_r, queues, q, sessions, si, all_files, task, tres, counts,
                   done, fs, dirs>>


\* ------------------------------------------------------------ HTTP handlers
\* the job threads that have been created
Created == {j \in JobIds : pc[j] # "idle"}
\* the job threads that are executing run_job
Executing == {j \in JobIds : pc[j] \notin {"idle", "finished"}}

\* start, lines 242-244: rejected while _job_active
StartRejected ==
    /\ _job_active
    /\ UNCHANGED vars

\* start, lines 246-263: a queue and a thread are created
Launch(data) ==
    /\ Cardinality(Created) < MaxJobs
    /\ LET j == Cardinality(Created) + 1
       IN  /\ cfg' = [cfg EXCEPT ![j] = JobArgs(data)]
           /\ _job_queue' = j
           /\ _job_active' = TRUE
           /\ _job_thread' = j
           /\ pc' = [pc EXCEPT ![j] = "begin"]
    /\ stopped' = 0
    /\ UNCHANGED <<index_r, queues, q, sessions, si, all_files, task, tres, counts, done, fs, dirs,
                   net, ioFaults, run, prev, fs0>>

\* start, lines 246-265, reached when _job_active is False
StartAccepted(data) ==
    /\ ~_job_active
    /\ Launch(data)
    /\ UNCHANGED <<get, idx, ses, fn, ep, http, stream, gr>>

\* stop, lines 291-295
Stop ==
    /\ _job_active' = FALSE
    /\ stopped' = IF _job_thread \in Executing THEN _job_thread ELSE stopped
    /\ UNCHANGED <<index_r, _job_queue, _job_thread, queues, pc, q, cfg, sessions, si,
                   all_files, task, tres, counts, done, fs, dirs, net, ioFaults,
                   run, prev, fs0, get, idx, ses, fn, ep, http, stream, gr>>

\* ------------------------------------------------------------------- Spec
\* The web application: /start and /stop requests and the job threads.
\* No call of the statement-level fetch client or index extractor is open.
GetIdle == [client |-> "_get", pc |-> "idle", attempt |-> 0, ret |-> "none", log |-> <<>>,
            call |-> 0, before |-> 0]

IdxIdle == [pc |-> "idle", grade_filters |-> <<>>, year_filters |-> <<>>, i |-> 0,
            sessions |-> <<>>]

SesIdle == [pc |-> "idle", es |-> 0, i |-> 0, files |-> <<>>]

FnIdle == [pc |-> "idle", pre |-> 0, tail |-> <<>>, href |-> <<>>, out |-> <<>>, again |-> <<>>]

EpIdle == [entry |-> "none", pc |-> "idle", threads |-> 0, pool |-> 0]

\* no /start request has been answered
HttpIdle == [start |-> 0, status |-> 0]

\* no /stream request is open
StreamIdle == [pc |-> "idle", q |-> 0, got |-> 0]

\* no classifier call is open
GrIdle == [pc |-> "idle", text |-> <<>>, href |-> "none", grade |-> <<>>, year |-> <<>>]

AppInit ==
    /\ _job_active = FALSE
    /\ _job_queue = 0
    /\ _job_thread = 0
    /\ queues = [i \in JobIds |-> [j \in JobIds |-> <<>>]]
    /\ pc = [j \in JobIds |-> "idle"]
    /\ q = [j \in JobIds |-> 0]
    /\ cfg = [j \in JobIds |-> NoArgs]
    /\ index_r = [j \in JobIds |-> "none"]
    /\ sessions = [j \in JobIds |-> <<>>]
    /\ si = [j \in JobIds |-> 0]
    /\ all_files = [j \in JobIds |-> <<>>]
    /\ task = [j \in JobIds |-> <<>>]
    /\ tres = [j \in JobIds |-> <<>>]
    /\ counts = [j \in JobIds |-> ZeroCounts]
    /\ done = [j \in JobIds |-> 0]
    /\ fs = {}
    /\ dirs = {}
    /\ net = [fixed |-> FALSE, down |-> {}]
    /\ ioFaults = TRUE
    /\ stopped = 0
    /\ run = 0
    /\ prev = <<>>
    /\ fs0 = [fs |-> {}, dirs |-> {}]

Init == AppInit /\ get = GetIdle /\ idx = IdxIdle /\ ses = SesIdle /\ fn = FnIdle /\ ep = EpIdle /\ http = HttpIdle /\ stream = StreamIdle /\ gr = GrIdle

JobStep(j) ==
    \/ RunJobBegin(j)
    \/ RunJobIndex(j)
    \/ RunJobScan(j)
    \/ WorkerStart(j)
    \/ \E t \in 1..Len(task[j]) : WorkerFetch(j, t)
    \/ \E t \in 1..Len(task[j]) : WorkerWrite(j, t)
    \/ \E t \in 1..Len(task[j]) : RunJobCollect(j, t)
    \/ \E t \in 1..Len(task[j]) : RunJobRaise(j, t)
    \/ RunJobExcept(j)
    \/ RunJobDone(j)
    \/ RunJobFinally(j)

Next ==
    \/ StartRejected
    \/ \E data \in StartInputs : StartAccepted(data)
    \/ Stop
    \/ \E j \in JobIds : JobStep(j)

Spec == Init /\ [][Next]_vars

\* ----------------------------------------------------------------- SpecDL
\* The download stage alone (run_job lines 203-228, download_file), run twice over
\* the same descriptor list and output root, by job thread 1.
DLRefs(n) == [k \in 1..n |-> <<0, k>>]

DLInit ==
    /\ _job_active = TRUE
    /\ _job_queue = 1
    /\ _job_thread = 1
    /\ queues = [i \in JobIds |-> [j \in JobIds |-> <<>>]]
    /\ pc = [j \in JobIds |-> IF j = 1 THEN "pool" ELSE "idle"]
    /\ q = [j \in JobIds |-> IF j = 1 THEN 1 ELSE 0]
    /\ \E dry \in BOOLEAN : \E th \in 1..MaxThreads :
         cfg = [j \in JobIds |-> IF j = 1 THEN [NoArgs EXCEPT !.dry_run = dry, !.threads = th]
                                 ELSE NoArgs]
    /\ index_r = [j \in JobIds |-> IF j = 1 THEN "ok" ELSE "none"]
    /\ sessions = [j \in JobIds |-> IF j = 1 THEN <<1>> ELSE <<>>]
    /\ si = [j \in JobIds |-> IF j = 1 THEN 2 ELSE 0]
    /\ \E n \in 0..MaxFiles :
         /\ all_files = [j \in JobIds |-> IF j = 1 THEN DLRefs(n) ELSE <<>>]
         /\ task = [j \in JobIds |-> IF j = 1 THEN [t \in 1..n |-> "queued"] ELSE <<>>]
         /\ tres = [j \in JobIds |-> IF j = 1 THEN [t \in 1..n |-> "none"] ELSE <<>>]
         /\ fs \in SUBSET {DestId(<<0, k>>) : k \in 1..n}
         /\ \E down \in SUBSET {<<0, k>> : k \in 1..n} : net = [fixed |-> TRUE, down |-> down]
    /\ counts = [j \in JobIds |-> ZeroCounts]
    /\ done = [j \in JobIds |-> 0]
    /\ dirs = {DirId(r) : r \in fs}
    /\ ioFaults \in BOOLEAN
    /\ stopped = 0
    /\ run = 1
    /\ prev = <<>>
    /\ fs0 = [fs |-> fs, dirs |-> dirs]
    /\ get = GetIdle
    /\ idx = IdxIdle
    /\ ses = SesIdle
    /\ fn = FnIdle
    /\ ep = EpIdle /\ http = HttpIdle /\ stream = StreamIdle /\ gr = GrIdle

\* The stage is run again with the same list (lines 203-212 of a new job): fresh
\* counts and futures, the tree as the first run left it.
Rerun ==
    /\ run = 1
    /\ pc[1] = "finally"
    /\ run' = 2
    /\ prev' = tres[1]
    /\ fs0' = [fs |-> fs, dirs |-> dirs]
    /\ pc' = [pc EXCEPT ![1] = "pool"]
    /\ task' = [task EXCEPT ![1] = [t \in 1..Len(all_files[1]) |-> "queued"]]
    /\ tres' = [tres EXCEPT ![1] = [t \in 1..Len(all_files[1]) |-> "none"]]
    /\ counts' = [counts EXCEPT ![1] = ZeroCounts]
    /\ done' = [done EXCEPT ![1] = 0]
    /\ queues' = [queues EXCEPT ![1][1] = <<>>]
    /\ UNCHANGED <<_job_active, _job_queue, _job_thread, q, cfg, index_r, sessions, si,
                   all_files, fs, dirs, net, ioFaults, stopped, get, idx, ses, fn, ep, http, stream, gr>>

DLNext ==
    \/ WorkerStart(1)
    \/ \E t \in 1..Len(task[1]) : WorkerFetch(1, t)
    \/ \E t \in 1..Len(task[1]) : WorkerWrite(1, t)
    \/ \E t \in 1..Len(task[1]) : RunJobCollect(1, t)
    \/ \E t \in 1..Len(task[1]) : RunJobRaise(1, t)
    \/ RunJobExcept(1)
    \/ RunJobDone(1)
    \/ Rerun

SpecDL == DLInit /\ [][DLNext]_vars

\* The scheduler runs every thread that can take a step: job threads and pool
\* threads are ordinary OS threads, none waits on anything but its own I/O.
FairSpec == Spec /\ \A j \in JobIds : WF_vars(JobStep(j))

\* ---------------------------------------------------------------- SpecGet
\* One call of the fetch client, statement by statement: _get with an emit callback,
\* _get without one (emit=None) and safe_get of the command-line tool.
Clients == {"_get", "_get_noemit", "safe_get"}

\* what session.get / raise_for_status can do on one attempt
Statuses == {"ok", "http_error", "transport_error"}

GetEv(ev, k, status, secs) == [ev |-> ev, k |-> k, status |-> status, secs |-> secs]

\* raise_for_status never raising: only a transport error reaches the except clause
RaisesTransportOnly(status) == status = "transport_error"

\* _get lines 41-43: session.get or raise_for_status raises a RequestException
Raises(status) == status # "ok"

GetInit ==
    /\ AppInit
    /\ idx = IdxIdle
    /\ ses = SesIdle
    /\ fn = FnIdle
    /\ ep = EpIdle /\ http = HttpIdle /\ stream = StreamIdle /\ gr = GrIdle
    /\ \E c \in Clients :
         get = [client |-> c, pc |-> "try", attempt |-> 1, ret |-> "none", log |-> <<>>,
                call |-> 1, before |-> 0]

\* _get line 40: time.sleep(DELAY)
GetDelay ==
    /\ get.pc = "try"
    /\ get' = [get EXCEPT !.pc = "request",
                          !.log = Append(@, GetEv("delay", get.attempt, "-", 0))]
    /\ UNCHANGED <<appvars, idx, ses, fn, ep, http, stream, gr>>

\* _get lines 41-43: the request; the response is returned unless something is raised
GetRequest(status) ==
    /\ get.pc = "request"
    /\ get' = [get EXCEPT !.pc = IF Raises(status) THEN "except" ELSE "returned",
                          !.ret = IF Raises(status) THEN @ ELSE "response",
                          !.log = Append(@, GetEv("request", get.attempt, status, 0))]
    /\ UNCHANGED <<appvars, idx, ses, fn, ep, http, stream, gr>>

\* a pause that does not grow
BackoffFlat(attempt) == 2

\* _get line 49: time.sleep(2 ** attempt)
Backoff(attempt) == 2 ^ attempt

\* a client that reports no retry
WarnsNever(client) == FALSE

\* _get line 45: if emit (safe_get prints its warning, line 82)
Warns(client) == client # "_get_noemit"

\* _get lines 44-49: the except clause (line 50 is never reached: the last iteration
\* of the loop returns at line 43 or at line 48)
GetExcept ==
    /\ get.pc = "except"
    /\ LET warned == IF Warns(get.client)
                     THEN Append(get.log, GetEv("warn", get.attempt, "-", 0))
                     ELSE get.log
       IN  IF get.attempt = MAX_RETRY
           THEN get' = [get EXCEPT !.pc = "returned", !.ret = "None", !.log = warned]
           ELSE get' = [get EXCEPT !.pc = "try", !.attempt = @ + 1,
                                   !.log = Append(warned,
                                                  GetEv("backoff", get.attempt, "-", Backoff(get.attempt)))]
    /\ UNCHANGED <<appvars, idx, ses, fn, ep, http, stream, gr>>

\* the caller calls the client again (line 38: the loop starts at attempt 1)
GetCall ==
    /\ get.pc = "returned"
    /\ get.call < MaxCalls
    /\ get' = [get EXCEPT !.pc = "try", !.attempt = 1, !.ret = "none", !.log = <<>>,
                          !.call = @ + 1,
                          !.before = @ + Len(SelectSeq(get.log,
                                             LAMBDA e : e.ev = "request" /\ Raises(e.status)))]
    /\ UNCHANGED <<appvars, idx, ses, fn, ep, http, stream, gr>>

GetNext ==
    \/ GetCall
    \/ GetDelay
    \/ \E status \in Statuses : GetRequest(status)
    \/ GetExcept

SpecGet == GetInit /\ [][GetNext]_vars

\* -------------------------------------------------------------- SpecIndex
\* One call of scrape_index on a fetched index page, one loop iteration at a time.
IdxPage ==
    << [href |-> <<"g","1","2",".","h","t","m">>,
        text |-> <<"G","r","a","d","e"," ","1","2"," ","N","o","v"," ","2","0","2","3">>],
       [href |-> <<"p","/","2","0","2","3",".","h","t","m">>,
        text |-> <<"G","r","a","d","e"," ","1"," ","P","a","p","e","r","s">>],
       [href |-> <<"g","e","c","/","2","0","2","1",".","h","t","m">>,
        text |-> <<"G","E","C"," ","P","a","p","e","r","s">>],
       [href |-> <<"j","9",".","h","t","m">>,
        text |-> <<"G","r"," ","9"," ","J","u","n","e"," ","2","0","2","1">>],
       [href |-> <<" ","g","1","2",".","h","t","m">>,
        text |-> <<"G","r","a","d","e"," ","1","2"," ","a","g","a","i","n">>],
       [href |-> <<"#","t","o","p">>,
        text |-> <<"B","a","c","k"," ","t","o"," ","t","o","p">>] >>

\* the sessions of the page's links
IdxSession == [i \in 1..Len(IdxPage) |-> SessionOf(IdxPage[i])]

GradeFilterChoices ==
    { <<>>,
      << <<"G","r","a","d","e"," ","1","2">> >>,
      << <<"G","r","a","d","e"," ","1">> >>,
      << <<"G","r","a","d","e"," ","9">> >>,
      << <<"G","r","a","d","e"," ","1">>, StrGrade9GEC >> }

YearFilterChoices ==
    { <<>>,
      << <<"2","0","2","3">> >>,
      << <<"2","0","2","1">>, <<"2","0","2","3">> >>,
      << <<"2","0","2","2">> >> }

\* scrape_index lines 79-85: the page was fetched, the list is empty
IdxInit ==
    /\ AppInit
    /\ get = GetIdle
    /\ ses = SesIdle
    /\ fn = FnIdle
    /\ ep = EpIdle /\ http = HttpIdle /\ stream = StreamIdle /\ gr = GrIdle
    /\ \E gf \in GradeFilterChoices : \E yf \in YearFilterChoices :
         idx = [pc |-> "loop", grade_filters |-> gf, year_filters |-> yf, i |-> 1,
                sessions |-> <<>>]

\* scrape_index lines 87-112: one iteration of the loop
IndexIter ==
    /\ idx.pc = "loop"
    /\ idx.i <= Len(IdxPage)
    /\ idx' = [idx EXCEPT !.sessions = IndexStep(@, IdxPage, idx.i, idx.grade_filters,
                                                 idx.year_filters),
                          !.i = @ + 1]
    /\ UNCHANGED <<appvars, get, ses, fn, ep, http, stream, gr>>

\* scrape_index lines 114-115
IndexReturn ==
    /\ idx.pc = "loop"
    /\ idx.i > Len(IdxPage)
    /\ idx' = [idx EXCEPT !.pc = "returned"]
    /\ UNCHANGED <<appvars, get, ses, fn, ep, http, stream, gr>>

IdxNext == IndexIter \/ IndexReturn

SpecIndex == IdxInit /\ [][IdxNext]_vars

\* ------------------------------------------------------------ SpecExtract
\* scrape_index on the index page, then scrape_session on the page of each session
\* it returned, in order, one loop iteration at a time.
ExtractPage ==
    << [href |-> <<"a",".","p","d","f">>, text |-> <<"M","e","m","o">>],
       [href |-> <<"b",".","z","i","p">>, text |-> <<"P","a","p","e","r">>],
       [href |-> BASE_URL \o <<"a",".","p","d","f">>, text |-> <<"M","e","m","o"," ","2">>],
       [href |-> <<"/","a",".","p","d","f">>, text |-> <<"R","o","o","t">>],
       [href |-> <<"n","o","t","e","s",".","h","t","m","l">>, text |-> <<"N","o","t","e","s">>],
       [href |-> <<"a",".","p","d","f">>, text |-> <<"A","g","a","i","n">>],
       [href |-> <<"b",".","z","i","p">>, text |-> <<>>] >>

\* the session scrape_session is scanning
SesOf(k) == IdxSession[idx.sessions[k]]

\* run_job lines 196-197: scrape_session is called for the next session; lines 119-126
SessionCall ==
    /\ idx.pc = "returned"
    /\ ses.pc \in {"idle", "returned"}
    /\ ses.es < Len(idx.sessions)
    /\ ses' = [pc |-> "loop", es |-> ses.es + 1, i |-> 1, files |-> <<>>]
    /\ UNCHANGED <<appvars, get, idx, fn, ep, http, stream, gr>>

\* scrape_session lines 128-142: one iteration of the loop
SessionIter ==
    /\ ses.pc = "loop"
    /\ ses.i <= Len(ExtractPage)
    /\ ses' = [ses EXCEPT !.files = SessionStep(@, ExtractPage[ses.i], SesOf(ses.es)),
                          !.i = @ + 1]
    /\ UNCHANGED <<appvars, get, idx, fn, ep, http, stream, gr>>

\* scrape_session line 144
SessionReturn ==
    /\ ses.pc = "loop"
    /\ ses.i > Len(ExtractPage)
    /\ ses' = [ses EXCEPT !.pc = "returned"]
    /\ UNCHANGED <<appvars, get, idx, fn, ep, http, stream, gr>>

ExtractNext == IndexIter \/ IndexReturn \/ SessionCall \/ SessionIter \/ SessionReturn

SpecExtract == IdxInit /\ [][ExtractNext]_vars

\* --------------------------------------------------------------- SpecText
\* The name functions applied to link texts around the length cap: a run of fn.pre
\* letters followed by up to MaxTail tokens.
Rep(c, n) == [i \in 1..n |-> c]

Prefixes == {0, NAME_CAP - 2, NAME_CAP - 1, NAME_CAP}

TailTokens == {<<"b">>, <<" ">>, <<"\t">>, <<"/">>, <<".","P","d","f">>}

RECURSIVE Tails(_)
Tails(n) ==
    IF n = 0 THEN {<<>>}
    ELSE Tails(n - 1) \cup {t \o k : t \in Tails(n - 1), k \in TailTokens}

TextHrefs == {<<"x",".","p","d","f">>, <<"d","/","y",".","Z","I","P">>,
              <<"z",".","d","o","c","x","?","v","=","1">>}

PrefixTable == [n \in Prefixes |-> Rep("a", n)]

\* the string the functions are applied to
FnInput == PrefixTable[fn.pre] \o fn.tail

TextInit ==
    /\ AppInit
    /\ get = GetIdle
    /\ idx = IdxIdle
    /\ ses = SesIdle
    /\ ep = EpIdle /\ http = HttpIdle /\ stream = StreamIdle /\ gr = GrIdle
    /\ \E n \in Prefixes : \E t \in Tails(MaxTail) :
         fn = [pc |-> "input", pre |-> n, tail |-> t, href |-> <<>>, out |-> <<>>,
               again |-> <<>>]

\* _sanitise(x)
Sanitise ==
    /\ fn.pc = "input"
    /\ fn' = [fn EXCEPT !.pc = "once", !.out = _sanitise(FnInput)]
    /\ UNCHANGED <<appvars, get, idx, ses, ep, http, stream, gr>>

\* _sanitise applied to a name that _sanitise returned
SanitiseAgain ==
    /\ fn.pc = "once"
    /\ fn' = [fn EXCEPT !.pc = "twice", !.again = _sanitise(fn.out)]
    /\ UNCHANGED <<appvars, get, idx, ses, ep, http, stream, gr>>

\* scrape_session lines 138-141 for a link with text x and the given href
FileName(href) ==
    /\ fn.pc = "input"
    /\ fn' = [fn EXCEPT !.pc = "named", !.href = href,
                        !.out = FileNameOf([href |-> href, text |-> FnInput])]
    /\ UNCHANGED <<appvars, get, idx, ses, ep, http, stream, gr>>

TextNext == Sanitise \/ SanitiseAgain \/ \E href \in TextHrefs : FileName(href)

SpecText == TextInit /\ [][TextNext]_vars

\* --------------------------------------------------------------- SpecPool
\* The two entry points turning the caller's thread count into a worker pool:
\* start of the web application and main of the command-line tool.
ThreadInputs == (1 - MaxOver)..(POOL_MAX + MaxOver)

PoolInit ==
    /\ AppInit
    /\ get = GetIdle
    /\ idx = IdxIdle
    /\ ses = SesIdle
    /\ fn = FnIdle
    /\ \E e \in {"start", "main"} : \E n \in ThreadInputs :
         ep = [entry |-> e, pc |-> "called", threads |-> n, pool |-> 0]
    /\ http = HttpIdle /\ stream = StreamIdle /\ gr = GrIdle

\* start line 251, then run_job line 209: ThreadPoolExecutor(max_workers=threads)
StartPool ==
    /\ ep.entry = "start" /\ ep.pc = "called"
    /\ ep' = [ep EXCEPT !.pc = "pooled", !.pool = ClampThreads(ep.threads)]
    /\ UNCHANGED <<appvars, get, idx, ses, fn, http, stream, gr>>

\* main line 317: ThreadPoolExecutor(max_workers=args.threads); the constructor raises
\* ValueError when max_workers <= 0
MainPool ==
    /\ ep.entry = "main" /\ ep.pc = "called"
    /\ ep' = IF ep.threads <= 0 THEN [ep EXCEPT !.pc = "raised"]
             ELSE [ep EXCEPT !.pc = "pooled", !.pool = ep.threads]
    /\ UNCHANGED <<appvars, get, idx, ses, fn, http, stream, gr>>

PoolNext == StartPool \/ MainPool

SpecPool == PoolInit /\ [][PoolNext]_vars

\* ---------------------------------------------------------------- SpecJob
\* One job alone, started on the whole site (no filter) and run from its first
\* statement to its end; no other request arrives.
\* the state a /start leaves when it has launched job thread 1
JobStarted ==
    /\ _job_active = TRUE
    /\ _job_queue = 1
    /\ _job_thread = 1
    /\ queues = [i \in JobIds |-> [j \in JobIds |-> <<>>]]
    /\ pc = [j \in JobIds |-> IF j = 1 THEN "begin" ELSE "idle"]
    /\ q = [j \in JobIds |-> 0]
    /\ \E a \in AloneArgs : cfg = [j \in JobIds |-> IF j = 1 THEN a ELSE NoArgs]
    /\ index_r = [j \in JobIds |-> "none"]
    /\ sessions = [j \in JobIds |-> <<>>]
    /\ si = [j \in JobIds |-> 0]
    /\ all_files = [j \in JobIds |-> <<>>]
    /\ task = [j \in JobIds |-> <<>>]
    /\ tres = [j \in JobIds |-> <<>>]
    /\ counts = [j \in JobIds |-> ZeroCounts]
    /\ done = [j \in JobIds |-> 0]
    /\ fs = {}
    /\ dirs = {}
    /\ net = [fixed |-> FALSE, down |-> {}]
    /\ ioFaults \in BOOLEAN
    /\ stopped = 0
    /\ run = 0
    /\ prev = <<>>
    /\ fs0 = [fs |-> {}, dirs |-> {}]

JobInit ==
    /\ JobStarted
    /\ get = GetIdle
    /\ idx = IdxIdle
    /\ ses = SesIdle
    /\ fn = FnIdle
    /\ ep = EpIdle /\ http = HttpIdle /\ stream = StreamIdle /\ gr = GrIdle

JobNext == JobStep(1)

SpecJob == JobInit /\ [][JobNext]_vars

\* ----------------------------------------------------------------- claims
\* the events job thread j has put on the queue it captured, in order
Log(j) == IF q[j] = 0 THEN <<>> ELSE queues[q[j]][j]

\* the number of done events job thread j has emitted
NDone(j) == Cardinality({k \in 1..Len(Log(j)) : Log(j)[k].kind = "done"})

\* C1: at most one run_job thread is executing at any time; a /start issued while a
\* started job has not finished launches no second job.
C1_AtMostOneJob == Cardinality(Executing) <= 1

\* C2: once a /stop has been received for a running job, no descriptor of that job
\* that had not begun leaves the pool's queue (no new download is started).
C2_NoDispatchAfterStop ==
    [][\A j \in JobIds : \A t \in 1..Len(task[j]) :
          (stopped = j /\ task[j][t] = "queued") => task'[j][t] = "queued"]_vars

\* How far job thread j is from the end of run_job: the rank of its position, then
\* the sessions left to scan, then what is left of each submitted descriptor.
PcRank(p) ==
    CASE p = "idle" -> 7 [] p = "begin" -> 6 [] p = "index" -> 5 [] p = "scan" -> 4
      [] p = "pool" -> 3 [] p = "unwind" -> 2 [] p = "finally" -> 1 [] OTHER -> 0

TaskRank(s) ==
    CASE s = "queued" -> 4 [] s = "fetch" -> 3 [] s = "write" -> 2 [] s = "ok" -> 1
      [] s = "exc" -> 1 [] OTHER -> 0

RECURSIVE SumTaskRank(_)
SumTaskRank(ts) == IF ts = <<>> THEN 0 ELSE TaskRank(Head(ts)) + SumTaskRank(Tail(ts))

Rank(j) ==
    PcRank(pc[j]) * 1000
    + (IF pc[j] = "scan" THEN Len(sessions[j]) + 1 - si[j] ELSE 0) * 100
    + SumTaskRank(task[j])

\* The safety part of C3: a job never emits a second done event, it has emitted one when it
\* reaches its finally block, until then one of its threads can always take a step
\* (nothing in it waits on another thread), and every step brings it closer to the end.
C3_ExactlyOneDone ==
    /\ [](\A j \in JobIds :
            /\ NDone(j) <= 1
            /\ (pc[j] \in {"finally", "finished"} => NDone(j) = 1)
            /\ (pc[j] \notin {"finally", "finished"} => NDone(j) = 0)
            /\ (pc[j] \notin {"idle", "finished"} => ENABLED JobStep(j)))
    /\ [][\A j \in JobIds :
            (pc'[j] # pc[j] \/ task'[j] # task[j] \/ si'[j] # si[j]) => Rank(j)' < Rank(j)]_vars

\* The liveness part of C3: a started job eventually finishes with exactly one done
\* event emitted.
C3_EventuallyDone ==
    \A j \in JobIds : (pc[j] = "begin") ~> (pc[j] = "finished" /\ NDone(j) = 1)

\* C3: every job started by /start eventually puts exactly one done event on the queue
\* it writes to (the one it captured at line 183), on every path of run_job; under
\* FairSpec, where every fetch attempt returns or fails and every thread is scheduled.
C3_DoneExactlyOnce == C3_ExactlyOneDone /\ C3_EventuallyDone

\* a job ended through its except clause with exactly one done event
C3_Witness ==
    \E j \in JobIds :
        /\ pc[j] = "finished"
        /\ NDone(j) = 1
        /\ \E k \in 1..Len(Log(j)) : Log(j)[k] = Ev("error", j, <<"unexpected">>)

\* C9: when the index page cannot be fetched, the job emits the error event followed
\* by a done event with four zero counts, and scans no session, submits no descriptor
\* and so fetches and writes no file.
C9_IndexFailure ==
    \A j \in JobIds :
        index_r[j] = "failed" =>
            /\ pc[j] \in {"finally", "finished"}
            /\ Log(j) = <<Ev("info", j, "fetching")>> \o WarnEvents(j, MAX_RETRY)
                        \o <<Ev("error", j, <<"index">>), Ev("done", j, <<0, 0, 0, 0>>)>>
            /\ sessions[j] = <<>> /\ all_files[j] = <<>> /\ task[j] = <<>>

C9_Witness == \E j \in JobIds : index_r[j] = "failed" /\ pc[j] = "finished"

\* the four counts carried by the done event of job thread j
DoneData(j) == Log(j)[CHOOSE k \in 1..Len(Log(j)) : Log(j)[k].kind = "done"].data

Sum4(d) == d[1] + d[2] + d[3] + d[4]

\* a task of job thread j raised (the job ends through its except clause)
Raised(j) == \E t \in 1..Len(task[j]) : task[j][t] = "exc"

Ended(j) == pc[j] \in {"finally", "finished"}

SeqOutcome(fi, fsv, dry) ==
    IF dry THEN "dryrun"
    ELSE IF DestId(fi) \in fsv THEN "skipped"
    ELSE IF fi \in net.down THEN "failed"
    ELSE "downloaded"

\* the counts of the stage when the descriptors are processed one after the other,
\* in list order (a pool of size 1)
RECURSIVE SeqCounts(_, _, _, _)
SeqCounts(files, fsv, dry, c) ==
    IF files = <<>> THEN c
    ELSE LET o == SeqOutcome(Head(files), fsv, dry)
         IN  SeqCounts(Tail(files),
                       IF o = "downloaded" THEN fsv \cup {DestId(Head(files))} ELSE fsv,
                       dry, Tally(c, o))

SeqData(j) ==
    LET c == SeqCounts(all_files[j], fs0.fs, cfg[j].dry_run, ZeroCounts)
    IN  <<c.downloaded, c.skipped, c.failed, c.dryrun>>

\* C5: for fixed fetch results and initial tree, the counts of the stage are those of
\* a pool of size 1, whatever the pool size and the scheduling.
C5_SameAsSequential ==
    (Ended(1) /\ ~Raised(1)) => DoneData(1) = SeqData(1)

\* C6: no fetch is issued for a descriptor while a file is present at its destination.
C6_NoFetchWhenPresent ==
    [][\A j \in JobIds : \A t \in 1..Len(task[j]) :
          (task[j][t] = "fetch" /\ task'[j][t] # "fetch") => ~DestExists(all_files[j][t])]_vars

\* every descriptor of the first run ended downloaded or skipped
FirstRunComplete ==
    /\ run = 2
    /\ ~cfg[1].dry_run
    /\ \A t \in 1..Len(prev) : prev[t] \in {"downloaded", "skipped"}

\* C7: a second run over the same list and root, after a first run in which every
\* descriptor ended downloaded or skipped, fetches nothing, skips everything and
\* leaves the tree as it was.
C7_SecondRunSkipsAll ==
    FirstRunComplete =>
        /\ \A t \in 1..Len(task[1]) :
              /\ task[1][t] \in {"queued", "ok", "collected"}
              /\ tres[1][t] \in {"none", "skipped"}
        /\ fs = fs0.fs /\ dirs = fs0.dirs
        /\ Ended(1) => DoneData(1) = <<0, Len(all_files[1]), 0, 0>>

\* the second run has ended after a first run that downloaded something
C7_Witness ==
    /\ FirstRunComplete
    /\ Ended(1)
    /\ Len(all_files[1]) >= 2
    /\ \E t \in 1..Len(prev) : prev[t] = "downloaded"

\* the request attempts of the fetch call so far, in order
Attempts == SelectSeq(get.log, LAMBDA e : e.ev = "request")

\* C8: one call of the fetch client issues between 1 and 3 request attempts; it
\* returns the response of the first attempt that succeeds and issues no attempt after
\* it; it returns None exactly when all 3 attempts failed.
C8_RetryBound ==
    /\ Len(Attempts) <= 3
    /\ \A k \in 1..Len(Attempts) : Attempts[k].k = k
    /\ \A k \in 1..(Len(Attempts) - 1) : Attempts[k].status # "ok"
    /\ get.pc = "returned" =>
          /\ Len(Attempts) >= 1
          /\ get.ret \in {"response", "None"}
          /\ get.ret = "response" <=> Attempts[Len(Attempts)].status = "ok"
          /\ get.ret = "None" <=>
                (Len(Attempts) = 3 /\ \A k \in 1..3 : Attempts[k].status # "ok")

\* a call returned the response of its third attempt
C8_Witness ==
    /\ get.pc = "returned"
    /\ get.ret = "response"
    /\ Len(Attempts) = 3

\* label is one of the labels of the filter list, or the list is empty
MemberOf(label, filters) ==
    filters = <<>> \/ \E k \in 1..Len(filters) : filters[k] = label

\* link i is the first candidate of the page with its URL
FirstWithUrl(i) ==
    \A k \in 1..(i - 1) : IsCandidate(IdxPage[k]) => IdxSession[k].url # IdxSession[i].url

\* C10: the index extractor keeps a candidate session iff its grade label is a member
\* of the grade filter set (or that set is empty) and its year label is a member of
\* the year filter set (or that set is empty).
C10_MembershipFilter ==
    idx.pc = "returned" =>
        \A i \in 1..Len(IdxPage) :
            (IsCandidate(IdxPage[i]) /\ FirstWithUrl(i)) =>
                ((\E k \in 1..Len(idx.sessions) : idx.sessions[k] = i)
                  <=> (/\ MemberOf(IdxSession[i].grade, idx.grade_filters)
                       /\ MemberOf(IdxSession[i].year, idx.year_filters)))

\* link i of the index page passes the candidate tests and both filters of the call
IdxPasses(i) ==
    /\ IsCandidate(IdxPage[i])
    /\ GradePasses(IdxSession[i].grade, idx.grade_filters)
    /\ YearPasses(IdxSession[i].year, idx.year_filters)

\* link i of the session page is a file link
IsFileLink(i) == Lower(PathSuffix(UrlPath(Strip(ExtractPage[i].href)))) \in FileExts

\* the resolved URL of link i of the session page being scanned
FileUrl(i) == urljoin(SesOf(ses.es).url, Strip(ExtractPage[i].href))

\* the position of the first file link of the session page that resolves to url
FirstFilePos(url) ==
    SetMin({i \in 1..Len(ExtractPage) : IsFileLink(i) /\ FileUrl(i) = url})

\* C11: the list of scrape_index holds no two sessions with the same resolved URL and
\* the list of scrape_session no two descriptors with the same resolved URL; in both
\* lists the entries stand in the order in which their URL was first met on the page,
\* each URL met is kept once.
C11_NoDuplicateUrl ==
    /\ \A a, b \in 1..Len(idx.sessions) :
          a < b => /\ IdxSession[idx.sessions[a]].url # IdxSession[idx.sessions[b]].url
                   /\ idx.sessions[a] < idx.sessions[b]
    /\ \A i \in 1..(idx.i - 1) :
          IdxPasses(i) =>
              \E k \in 1..Len(idx.sessions) :
                  /\ IdxSession[idx.sessions[k]].url = IdxSession[i].url
                  /\ idx.sessions[k] <= i
                  /\ IdxPasses(idx.sessions[k])
    /\ ses.pc # "idle" =>
          /\ \A a, b \in 1..Len(ses.files) :
                a < b => /\ ses.files[a].url # ses.files[b].url
                         /\ FirstFilePos(ses.files[a].url) < FirstFilePos(ses.files[b].url)
          /\ \A i \in 1..(ses.i - 1) :
                IsFileLink(i) => \E k \in 1..Len(ses.files) : ses.files[k].url = FileUrl(i)
          /\ \A k \in 1..Len(ses.files) :
                \E i \in 1..(ses.i - 1) : IsFileLink(i) /\ ses.files[k].url = FileUrl(i)

\* both extractors returned a list of two or more entries after dropping a repeated URL
C11_Witness ==
    /\ idx.pc = "returned" /\ ses.pc = "returned"
    /\ Len(idx.sessions) >= 2
    /\ Cardinality({i \in 1..Len(IdxPage) : IdxPasses(i)}) > Len(idx.sessions)
    /\ Len(ses.files) >= 2
    /\ Cardinality({i \in 1..Len(ExtractPage) : IsFileLink(i)}) > Len(ses.files)

\* C12: the name sanitizer is idempotent, also on strings longer than the cap whose
\* character at the cap is whitespace: sanitising a sanitised name changes nothing.
C12_SanitiseIdempotent == fn.pc = "twice" => fn.again = fn.out

NoBadChar(s) == \A i \in 1..Len(s) : s[i] \notin BadChars

NoSpaceRun(s) == \A i \in 1..(Len(s) - 1) : ~(IsSpace(s[i]) /\ IsSpace(s[i + 1]))

\* C13: every filename of the session extractor is at most 120 characters long, holds
\* none of the forbidden characters and ends, whatever the case, in the link's extension.
C13_FileNameShape ==
    fn.pc = "named" =>
        /\ Len(fn.out) <= 120
        /\ NoBadChar(fn.out)
        /\ EndsWith(Lower(fn.out), Lower(PathSuffix(UrlPath(fn.href))))

\* C14: the output of the sanitizer holds none of the forbidden characters, no run of
\* two or more whitespace characters, and is at most 120 characters long.
C14_SanitiseShape ==
    fn.pc \in {"once", "twice"} =>
        /\ NoBadChar(fn.out)
        /\ NoSpaceRun(fn.out)
        /\ Len(fn.out) <= 120

\* a string longer than the cap, with a whitespace run inside it, was sanitised to a
\* name of exactly the cap's length
C14_Witness ==
    /\ fn.pc = "once"
    /\ Len(FnInput) > NAME_CAP
    /\ ~NoSpaceRun(FnInput)
    /\ Len(fn.out) = NAME_CAP

\* the events of the given kind in the log of job thread j, in order
EventsOf(j, kind) == SelectSeq(Log(j), LAMBDA e : e.kind = kind)

\* the descriptors of job thread j that a worker has taken from the pool's queue
Taken(j) == {t \in 1..Len(task[j]) : task[j][t] # "queued"}

\* C15: with dry_run set the download stage fetches nothing, creates no directory and
\* writes no file: the tree stays as it was, every descriptor gets outcome dryrun, and
\* one dryrun event naming its destination is emitted per descriptor.
C15_DryRunFrame ==
    cfg[1].dry_run =>
        /\ \A t \in 1..Len(task[1]) :
              /\ task[1][t] \in {"queued", "ok", "collected"}
              /\ tres[1][t] = IF t \in Taken(1) THEN "dryrun" ELSE "none"
        /\ fs = fs0.fs /\ dirs = fs0.dirs
        /\ Len(EventsOf(1, "dryrun")) = Cardinality(Taken(1))
        /\ \A t \in Taken(1) :
              Cardinality({k \in 1..Len(EventsOf(1, "dryrun")) :
                              EventsOf(1, "dryrun")[k].data = DestId(all_files[1][t])})
              = Cardinality({u \in Taken(1) : DestId(all_files[1][u]) = DestId(all_files[1][t])})
        /\ Len(EventsOf(1, "warn")) = 0 /\ Len(EventsOf(1, "download")) = 0
        /\ Ended(1) => DoneData(1) = <<0, 0, 0, Len(all_files[1])>>

\* a dry run over three descriptors, two of them with the same destination, has ended
\* on a tree that already held a file
C15_Witness ==
    /\ cfg[1].dry_run
    /\ Ended(1)
    /\ Len(all_files[1]) >= 3
    /\ fs # {}

\* C16: the done values of the progress events of the download stage are 1, 2, 3, ...
\* in the order of the events, whatever the scheduling of the workers: one event per
\* collected descriptor, never above total, and total in the last event of a stage
\* that processed every descriptor.
C16_ProgressMonotone ==
    /\ \A k \in 1..Len(EventsOf(1, "progress")) :
          EventsOf(1, "progress")[k].data = <<k, Len(all_files[1])>>
    /\ Len(EventsOf(1, "progress")) = Cardinality({t \in 1..Len(task[1]) : task[1][t] = "collected"})
    /\ Len(EventsOf(1, "progress")) <= Len(all_files[1])
    /\ (Ended(1) /\ ~Raised(1)) => Len(EventsOf(1, "progress")) = Len(all_files[1])

\* a stage of two threads has collected its three descriptors, the last submitted
\* one not last
C16_Witness ==
    /\ Ended(1) /\ ~Raised(1)
    /\ cfg[1].threads >= 2
    /\ Len(all_files[1]) >= 3
    /\ Len(EventsOf(1, "progress")) = Len(all_files[1])
    /\ tres[1][1] = "downloaded" /\ tres[1][3] = "failed"

\* C17: whatever thread count the caller gives (0, negative and above 10 included),
\* the entry point builds a worker pool, and its size is in [1, 10]; for start and
\* for main.
C17_PoolSizeClamped ==
    /\ ep.pc # "raised"
    /\ ep.pc = "pooled" => (1 <= ep.pool /\ ep.pool <= 10)

\* the positions of the scan events in the log of job thread j, in order
ScanPos(j) == SelectSeq([p \in 1..Len(Log(j)) |-> p], LAMBDA p : Log(j)[p].kind = "scan")

\* the number of warn events that follow position p of the log of job thread j
RECURSIVE WarnRun(_, _)
WarnRun(j, p) ==
    IF p < Len(Log(j)) /\ Log(j)[p + 1].kind = "warn" THEN 1 + WarnRun(j, p + 1) ELSE 0

\* the fetch of the page of the k-th session scanned by job thread j returned a page
PageFetched(j, k) == WarnRun(j, ScanPos(j)[k]) < MAX_RETRY

\* the descriptors of the first k sessions of job thread j whose page was fetched
RECURSIVE FetchedFiles(_, _)
FetchedFiles(j, k) ==
    IF k = 0 THEN <<>>
    ELSE FetchedFiles(j, k - 1)
         \o (IF PageFetched(j, k) THEN RefsOf(sessions[j][k]) ELSE <<>>)

\* C18: a session page whose fetch fails adds nothing and stops nothing: the sessions
\* are scanned one after the other in the order of the index list, all of them, and
\* the descriptors of the job are those of the sessions whose page was fetched, in
\* session order.
C18_ScanGoesOn ==
    \A j \in JobIds :
        sessions[j] # <<>> =>
            /\ Len(ScanPos(j)) = si[j] - 1
            /\ \A k \in 1..Len(ScanPos(j)) : Log(j)[ScanPos(j)[k]].data = sessions[j][k]
            /\ all_files[j] = FetchedFiles(j, si[j] - 1)
            /\ pc[j] # "scan" => si[j] = Len(sessions[j]) + 1

\* the page of the first of two sessions could not be fetched, the job has ended
\* with the descriptors of the second
C18_Witness ==
    /\ Ended(1)
    /\ Len(sessions[1]) = 2
    /\ ~PageFetched(1, 1) /\ PageFetched(1, 2)
    /\ all_files[1] = RefsOf(sessions[1][2])
    /\ all_files[1] # <<>>

\* the descriptors of job thread 1 whose outcome is failed
FailedSet == {t \in 1..Len(tres[1]) : tres[1][t] = "failed"}

\* the outcomes of the descriptors when they are processed one after the other and
\* the fetches of the descriptors in down fail
RECURSIVE SeqResults(_, _, _, _)
SeqResults(files, fsv, dry, down) ==
    IF files = <<>> THEN <<>>
    ELSE LET fi == Head(files)
             o  == IF dry THEN "dryrun"
                   ELSE IF DestId(fi) \in fsv THEN "skipped"
                   ELSE IF fi \in down THEN "failed"
                   ELSE "downloaded"
         IN  <<o>> \o SeqResults(Tail(files),
                                 IF o = "downloaded" THEN fsv \cup {DestId(fi)} ELSE fsv,
                                 dry, down)

\* a failed descriptor has a failing fetch and one error event naming it; no
\* descriptor with a failing fetch is downloaded
FailedIsReported ==
    /\ \A t \in 1..Len(tres[1]) :
          /\ tres[1][t] = "failed" => all_files[1][t] \in net.down
          /\ all_files[1][t] \in net.down => tres[1][t] # "downloaded"
          /\ Cardinality({k \in 1..Len(EventsOf(1, "error")) :
                             EventsOf(1, "error")[k].data = all_files[1][t]})
             = IF tres[1][t] = "failed" THEN 1 ELSE 0
    /\ Raised(1) => ioFaults
    /\ (Ended(1) /\ ~Raised(1)) =>
          /\ \A t \in 1..Len(tres[1]) : tres[1][t] # "none"
          /\ DoneData(1)[3] = Cardinality(FailedSet)

\* C19 as claimed: a descriptor whose fetch fails ends failed with an error event
\* naming it, and every other descriptor ends as it would have, had that fetch
\* succeeded (stated for a pool of one thread, where the outcomes are determined).
C19_OthersUnaffected ==
    /\ FailedIsReported
    /\ (Ended(1) /\ ~Raised(1) /\ cfg[1].threads = 1 /\ Cardinality(FailedSet) = 1) =>
          LET f == CHOOSE t \in FailedSet : TRUE
              w == SeqResults(all_files[1], fs0.fs, cfg[1].dry_run,
                              net.down \ {all_files[1][f]})
          IN  \A u \in 1..Len(tres[1]) : u # f => tres[1][u] = w[u]

\* the other descriptors of job thread 1 with the destination of descriptor u whose
\* fetch does not fail
Writers(u) ==
    {t \in 1..Len(all_files[1]) :
        /\ t # u
        /\ DestId(all_files[1][t]) = DestId(all_files[1][u])
        /\ all_files[1][t] \notin net.down}

\* what a descriptor can end as, given the tree at the start of the stage, its own
\* fetch result and the fetch results of the descriptors with its destination
Outcomes(u) ==
    LET own == IF all_files[1][u] \in net.down THEN "failed" ELSE "downloaded"
    IN  IF cfg[1].dry_run THEN {"dryrun"}
        ELSE IF DestId(all_files[1][u]) \in fs0.fs THEN {"skipped"}
        ELSE IF Writers(u) = {} THEN {own}
        ELSE {own, "skipped"}

\* C19 as amended: a descriptor whose fetch fails ends failed with an error event
\* naming it, neither the pool nor the job is aborted, and the outcome of every
\* descriptor depends on no fetch but its own and those of the descriptors with its
\* destination path.
C19_FailureIsLocal ==
    /\ FailedIsReported
    /\ \A u \in 1..Len(tres[1]) : tres[1][u] # "none" => tres[1][u] \in Outcomes(u)

\* the fetch of the first descriptor failed; the second, which has its destination,
\* and the third were downloaded
C19_Witness ==
    /\ Ended(1) /\ ~Raised(1)
    /\ Len(tres[1]) >= 3
    /\ tres[1][1] = "failed" /\ tres[1][2] = "downloaded" /\ tres[1][3] = "downloaded"

\* C20: within one fetch call the politeness delay precedes every request attempt,
\* first attempt and retries alike; a backoff pause of 2^k seconds follows failed
\* attempt k and precedes attempt k+1, for k = 1, 2; every call starts at attempt 1,
\* whatever failed in the calls before it.
C20_Pacing ==
    /\ get.log # <<>> => get.log[1] = GetEv("delay", 1, "-", 0)
    /\ \A p \in 1..Len(get.log) :
          LET e == get.log[p]
          IN  /\ e.ev = "request" =>
                    p > 1 /\ get.log[p - 1] = GetEv("delay", e.k, "-", 0)
              /\ (e.ev = "delay" /\ p > 1) =>
                    /\ e.k \in {2, 3}
                    /\ get.log[p - 1] = GetEv("backoff", e.k - 1, "-", 2 ^ (e.k - 1))
              /\ e.ev = "backoff" =>
                    /\ e.k \in {1, 2}
                    /\ e.secs = 2 ^ e.k
                    /\ \E r \in 1..(p - 1) :
                          /\ r >= p - 2
                          /\ get.log[r].ev = "request" /\ get.log[r].k = e.k
                          /\ get.log[r].status # "ok"
                    /\ p < Len(get.log) => get.log[p + 1] = GetEv("delay", e.k + 1, "-", 0)
              /\ (e.ev = "request" /\ e.status # "ok" /\ e.k < 3 /\ get.pc # "except") =>
                    \E b \in (p + 1)..Len(get.log) : get.log[b] = GetEv("backoff", e.k, "-", 2 ^ e.k)

\* a second call made after a call whose three attempts failed has itself gone through
\* three attempts
C20_Witness ==
    /\ get.call = 2 /\ get.before = 3
    /\ get.pc = "returned"
    /\ Len(Attempts) = 3

\* the events of the except clause in the log of job thread j
Unexpected(j) == SelectSeq(EventsOf(j, "error"), LAMBDA e : e.data = <<"unexpected">>)

\* the four counts the as_completed loop of job thread j has tallied
Tallied(j) == <<counts[j].downloaded, counts[j].skipped, counts[j].failed, counts[j].dryrun>>

\* C21: a job in which a worker raised ends with one error event followed by one done
\* event, and the counts of that done event are those of the descriptors that were
\* completed before the fault.
C21_FaultReport ==
    \A j \in JobIds : (Ended(j) /\ Raised(j)) =>
        /\ Len(Unexpected(j)) = 1
        /\ NDone(j) = 1
        /\ Log(j)[Len(Log(j)) - 1] = Ev("error", j, <<"unexpected">>)
        /\ Log(j)[Len(Log(j))].kind = "done"
        /\ DoneData(j) = Tallied(j)

\* the event is one of the download stage: a dryrun, download or failed-download event
IsDownloadEvent(e) ==
    \/ e.kind \in {"dryrun", "download"}
    \/ e.kind = "error" /\ e.data \notin {<<"index">>, <<"unexpected">>}

\* the number of events of the given kind before position p of the log of job thread j
CountBefore(j, kind, p) == Cardinality({a \in 1..(p - 1) : Log(j)[a].kind = kind})

\* C22: within one job the download stage starts only when the last session page has
\* been scanned: while the extraction runs no descriptor is submitted, fetched or
\* written and every progress event is a scanned-progress event; once descriptors
\* are submitted every session has been scanned; in the log every scan event and its
\* scanned-progress event precede every event of the download stage.
C22_ExtractionBeforeDownload ==
    \A j \in JobIds :
        /\ pc[j] \in {"begin", "index", "scan"} =>
              /\ task[j] = <<>> /\ fs = {} /\ dirs = {}
              /\ \A a \in 1..Len(Log(j)) : ~IsDownloadEvent(Log(j)[a])
              /\ Len(EventsOf(j, "progress")) = Len(EventsOf(j, "scan"))
        /\ task[j] # <<>> => Len(EventsOf(j, "scan")) = Len(sessions[j])
        /\ \A b \in 1..Len(Log(j)) : Log(j)[b].kind = "scan" =>
              /\ \A a \in 1..(b - 1) : ~IsDownloadEvent(Log(j)[a])
              /\ CountBefore(j, "progress", b) = CountBefore(j, "scan", b)
        /\ \A b \in 1..Len(Log(j)) : IsDownloadEvent(Log(j)[b]) =>
              CountBefore(j, "progress", b) >= Len(sessions[j])

\* a job has scanned its two sessions and has then downloaded a file and failed on
\* another
C22_Witness ==
    /\ Ended(1)
    /\ Len(sessions[1]) >= 2
    /\ Len(EventsOf(1, "scan")) = Len(sessions[1])
    /\ Len(EventsOf(1, "download")) >= 1
    /\ \E a \in 1..Len(Log(1)) : Log(1)[a].kind = "error" /\ IsDownloadEvent(Log(1)[a])

\* ----------------------------------------------------------------- SpecWeb
\* The web application with the answer of every /start request recorded.
MaxStarts == 3

\* a handler without its check of the flag
RejectsNever(active) == FALSE

\* start, line 243: if _job_active
Rejects(active) == active

\* start, lines 238-265, with its answer: 409 (line 244) or 200 (line 265)
StartRequest(data) ==
    /\ http.start < MaxStarts
    /\ IF Rejects(_job_active)
       THEN /\ http' = [start |-> http.start + 1, status |-> 409]
            /\ UNCHANGED appvars
       ELSE /\ Launch(data)
            /\ http' = [start |-> http.start + 1, status |-> 200]
    /\ UNCHANGED <<get, idx, ses, fn, ep, stream, gr>>

WebNext ==
    \/ \E data \in StartInputs : StartRequest(data)
    \/ Stop
    \/ \E j \in JobIds : JobStep(j)

SpecWeb == Init /\ [][WebNext]_vars

\* C23: a /start request handled while _job_active is True is answered 409 and leaves
\* _job_queue, _job_thread, _job_active, the queues and the job threads as they were.
C23_RejectedStartFrame ==
    [][(http'.start # http.start /\ _job_active) =>
          (http'.status = 409 /\ UNCHANGED appvars)]_vars

\* a /start request has been answered 409 while a job is in its download stage with
\* events on its queue
C23_Witness ==
    /\ http.status = 409
    /\ _job_active
    /\ \E j \in JobIds : pc[j] = "pool" /\ Log(j) # <<>> /\ _job_thread = j

\* --------------------------------------------------------------- SpecGrade
\* The classifiers of scrape_index (lines 101-102) on link texts made of at most
\* MaxWords words joined by "-", and an href.
MaxWords == 2

\* the words a link text is made of
Words ==
    [gr12  |-> <<"G","r"," ","1","2">>,
     grade |-> <<"G","R","A","D","E",".","7">>,
     gec   |-> <<"G","E","C">>,
     cert  |-> <<"G","e","n","e","r","a","l"," ","E","d","u","c","a","t","i","o","n"," ",
                 "C","e","r","t","i","f","i","c","a","t","e">>,
     ana   |-> <<" ","A","N","A">>,
     annual |-> <<"A","n","n","u","a","l"," ","N","a","t","i","o","n","a","l"," ",
                  "A","s","s","e","s","s","m","e","n","t">>,
     y2021 |-> <<"2","0","2","1">>,
     y2023 |-> <<"2","0","2","3">>,
     digits |-> <<"2","0","2","1","2","0","2","2">>,
     plain |-> <<"P","a","p","e","r","s">>]

\* the hrefs
Hrefs ==
    [y2019 |-> <<"s","/","2","0","1","9",".","h","t","m">>,
     gec   |-> <<"g","e","c","/","x",".","h","t","m">>,
     gr11  |-> <<"g","r","1","1",".","h","t","m">>,
     plain |-> <<"x",".","h","t","m">>]

WordLists == UNION {[1..n -> DOMAIN Words] : n \in 0..MaxWords}

RECURSIVE JoinWords(_)
JoinWords(ws) ==
    IF ws = <<>> THEN <<>>
    ELSE IF Len(ws) = 1 THEN Words[ws[1]]
    ELSE Words[ws[1]] \o <<"-">> \o JoinWords(Tail(ws))

\* the link text and href of the open call
GrText == JoinWords(gr.text)
GrHref == Hrefs[gr.href]

GradeInit ==
    /\ AppInit
    /\ get = GetIdle /\ idx = IdxIdle /\ ses = SesIdle /\ fn = FnIdle /\ ep = EpIdle
    /\ http = HttpIdle /\ stream = StreamIdle
    /\ \E ws \in WordLists : \E h \in DOMAIN Hrefs :
         gr = [pc |-> "called", text |-> ws, href |-> h, grade |-> <<>>, year |-> <<>>]

\* scrape_index, line 101
InferYear ==
    /\ gr.pc = "called"
    /\ gr' = [gr EXCEPT !.pc = "year", !.year = YearOf(GrText, GrHref)]
    /\ UNCHANGED <<appvars, get, idx, ses, fn, ep, http, stream>>

\* scrape_index, line 102
Classify ==
    /\ gr.pc = "year"
    /\ gr' = [gr EXCEPT !.pc = "done", !.grade = GradeOf(GrText, GrHref)]
    /\ UNCHANGED <<appvars, get, idx, ses, fn, ep, http, stream>>

GradeNext == InferYear \/ Classify

SpecGrade == GradeInit /\ [][GradeNext]_vars

\* the signals carried by the words of the link text and by the href, in the order
\* in which the classifier reads them
GradeSignals ==
    SelectSeq(gr.text, LAMBDA w : w \in {"gr12", "grade"})
    \o (IF gr.href = "gr11" THEN <<"gr11">> ELSE <<>>)
GecSignal == (\E i \in 1..Len(gr.text) : gr.text[i] \in {"gec", "cert"}) \/ gr.href = "gec"
AnaSignal == \E i \in 1..Len(gr.text) : gr.text[i] \in {"ana", "annual"}
YearWords == SelectSeq(gr.text, LAMBDA w : w \in {"y2021", "y2023"})

\* the label of a grade signal
GradeLabel(w) ==
    IF w = "gr12" THEN <<"G","r","a","d","e"," ","1","2">>
    ELSE IF w = "grade" THEN <<"G","r","a","d","e"," ","7">>
    ELSE <<"G","r","a","d","e"," ","1","1">>

\* C24: the grade is decided by the first rule that matches, in the order grade
\* pattern, GEC, ANA, Other: the first grade pattern of the text gives 'Grade N'
\* whatever else the text holds, a GEC signal wins over an ANA signal; the year is
\* the first year of the link text, and the year of the href only when the text has
\* none.
C24_PrecedenceChain ==
    gr.pc = "done" =>
        /\ gr.grade = IF GradeSignals # <<>> THEN GradeLabel(GradeSignals[1])
                      ELSE IF GecSignal THEN StrGrade9GEC
                      ELSE IF AnaSignal THEN StrANA
                      ELSE StrOther
        /\ gr.year = IF YearWords # <<>> THEN Words[YearWords[1]]
                     ELSE IF gr.href = "y2019" THEN <<"2","0","1","9">>
                     ELSE StrUnknownYear

\* a text with a GEC signal followed by a grade pattern was classified by its grade;
\* its year came from the href
C24_Witness ==
    /\ gr.pc = "done"
    /\ gr.text = <<"gec", "grade">> /\ gr.href = "y2019"
    /\ gr.grade = <<"G","r","a","d","e"," ","7">>
    /\ gr.year = <<"2","0","1","9">>

\* the values download_file returns
OutcomeKinds == {"downloaded", "skipped", "failed", "dryrun"}

\* every descriptor submitted to the pool of job thread j has been run to its end
Drained(j) == task[j] # <<>> /\ Queued(j) = {} /\ Running(j) = {}

\* C25: every descriptor of a job is submitted to the pool once and yields one outcome
\* out of downloaded, skipped, failed, dryrun: the pool holds one task per descriptor,
\* a task has an outcome only once a worker has run it, and when the pool has drained
\* no descriptor is left without an outcome.
C25_OneOutcomeEach ==
    \A j \in JobIds :
        /\ Len(task[j]) \in {0, Len(all_files[j])}
        /\ \A t \in 1..Len(task[j]) :
              /\ tres[j][t] \in OutcomeKinds \cup {"none"}
              /\ tres[j][t] # "none" <=> task[j][t] \in {"ok", "collected"}
        /\ Drained(j) => \A t \in 1..Len(task[j]) : tres[j][t] \in OutcomeKinds

\* the warn events of the open call, in order
Warnings == SelectSeq(get.log, LAMBDA e : e.ev = "warn")

\* the attempts of the open call that failed
FailedAttempts == SelectSeq(Attempts, LAMBDA e : e.status # "ok")

\* C26: in a call of _get with an emit callback the warn events are those of the
\* failed attempts: each failed attempt is directly followed by its warn event, no
\* other warn event is emitted, a returned call has emitted as many warn events (0 to
\* 3) as attempts failed, and a call whose attempts all failed has returned None
\* (nothing is raised to the caller).
C26_WarnPerFailure ==
    get.client = "_get" =>
        /\ \A p \in 1..Len(get.log) :
              /\ (get.log[p].ev = "request" /\ get.log[p].status # "ok" /\ p < Len(get.log))
                    => get.log[p + 1] = GetEv("warn", get.log[p].k, "-", 0)
              /\ get.log[p].ev = "warn" =>
                    /\ p > 1
                    /\ get.log[p - 1].ev = "request" /\ get.log[p - 1].status # "ok"
                    /\ get.log[p - 1].k = get.log[p].k
        /\ get.pc # "except" => Len(Warnings) = Len(FailedAttempts)
        /\ get.pc = "except" => Len(Warnings) = Len(FailedAttempts) - 1
        /\ Len(Warnings) <= MAX_RETRY
        /\ get.pc \in {"try", "request", "except", "returned"}
        /\ (get.pc = "returned" /\ Attempts[Len(Attempts)].status # "ok") => get.ret = "None"

\* a call with an emit callback has returned None after three warn events, the
\* attempts having failed on transport errors and on an HTTP error status
C26_Witness ==
    /\ get.client = "_get"
    /\ get.pc = "returned" /\ get.ret = "None"
    /\ Len(Warnings) = 3
    /\ \E k \in 1..3 : Attempts[k].status = "transport_error"
    /\ \E k \in 1..3 : Attempts[k].status = "http_error"

\* C27: the done event is the last event a job puts on its queue: no event of the
\* job (warn, error, download, dryrun, progress) follows its done event, under every
\* scheduling of the workers and on the path where a worker raises, and a job that
\* has ended has put its done event.
C27_DoneIsLast ==
    \A j \in JobIds :
        /\ \A k \in 1..Len(Log(j)) : Log(j)[k].kind = "done" => k = Len(Log(j))
        /\ Ended(j) => (Log(j) # <<>> /\ Log(j)[Len(Log(j))].kind = "done")

\* a job of two workers over three descriptors has ended through its except clause
\* after one worker raised and another downloaded a file and a third fetch failed
C27_Witness ==
    /\ Ended(1) /\ Raised(1)
    /\ cfg[1].threads >= 2
    /\ Len(all_files[1]) >= 3
    /\ Len(EventsOf(1, "download")) >= 1
    /\ Len(EventsOf(1, "warn")) >= 1
    /\ task[1][1] = "exc" /\ task[1][3] = "ok"
    /\ Log(1)[Len(Log(1))].kind = "done"

\* -------------------------------------------------------------- SpecStream
\* One job alone, as in SpecJob, with /stop requests and one /stream request whose
\* generate loop (lines 270-285) runs statement by statement. Job thread 1 is the
\* only thread that puts events on a queue.
Items(i) == queues[i][1]

StreamInit ==
    /\ JobStarted
    /\ get = GetIdle /\ idx = IdxIdle /\ ses = SesIdle /\ fn = FnIdle /\ ep = EpIdle
    /\ http = HttpIdle /\ gr = GrIdle
    /\ stream = [pc |-> "loop", q |-> 0, got |-> 0]

\* stream, lines 272-276: q = _job_queue under the lock; sleep and continue if None
StreamRead ==
    /\ stream.pc = "loop"
    /\ stream' = [stream EXCEPT !.q = _job_queue,
                                !.pc = IF _job_queue = 0 THEN "loop" ELSE "get"]
    /\ UNCHANGED <<appvars, get, idx, ses, fn, ep, http, gr>>

\* stream, lines 278-283: q.get(timeout=1.0) returns the oldest event not yet taken,
\* which is yielded (the loop ends on a done event), or raises queue.Empty when the
\* queue has stayed empty, and a ping is yielded. got counts the events taken.
StreamGet ==
    /\ stream.pc = "get"
    /\ IF stream.got < Len(Items(stream.q))
       THEN stream' = [stream EXCEPT
                          !.got = @ + 1,
                          !.pc = IF Items(stream.q)[stream.got + 1].kind = "done"
                                 THEN "closed" ELSE "loop"]
       ELSE stream' = [stream EXCEPT !.pc = "check"]
    /\ UNCHANGED <<appvars, get, idx, ses, fn, ep, http, gr>>

\* stream, line 284: if not _job_active
GivesUp(active) == ~active

\* stream, lines 284-285: after the ping, break when _job_active is False
StreamCheck ==
    /\ stream.pc = "check"
    /\ stream' = [stream EXCEPT !.pc = IF GivesUp(_job_active) THEN "closed" ELSE "loop"]
    /\ UNCHANGED <<appvars, get, idx, ses, fn, ep, http, gr>>

StreamNext ==
    \/ JobStep(1)
    \/ Stop
    \/ StreamRead
    \/ StreamGet
    \/ StreamCheck

SpecStream == StreamInit /\ [][StreamNext]_vars

\* C28: a /stream consumer attached to a running job ends its loop only after it has
\* delivered the done event of that job.
C28_StreamEndsAfterDone ==
    stream.pc = "closed" =>
        /\ stream.got >= 1
        /\ Items(stream.q)[stream.got].kind = "done"

\* C29: every event of a job is put on the queue made by the /start request that
\* launched the job (queue j for job thread j) and on no other, so that no queue holds
\* events, or done events, of two jobs.
C29_OwnQueue ==
    /\ \A j \in JobIds : q[j] \in {0, j}
    /\ \A i \in JobIds : \A j \in JobIds : queues[i][j] # <<>> => i = j
    /\ \A i \in JobIds :
          Cardinality({j \in JobIds : \E k \in 1..Len(queues[i][j]) :
                                          queues[i][j][k].kind = "done"}) <= 1

\* job thread j has been started and has not reached its finally block
BeforeFinally(j) == pc[j] \in {"begin", "index", "scan", "pool", "unwind"}

\* C30: _job_active is True whenever a job thread has been started and has not reached
\* its finally block, and the flag is cleared only by the finally block of the job it
\* was set for (the job of the last accepted /start).
C30_FlagFollowsJob ==
    [][/\ \A j \in JobIds : BeforeFinally(j)' => _job_active'
       /\ (_job_active /\ ~_job_active') =>
             (pc[_job_thread] = "finally" /\ pc'[_job_thread] = "finished")]_vars

\* the destination paths of the descriptors of job thread 1
Dests == {DestId(all_files[1][t]) : t \in 1..Len(all_files[1])}

\* the descriptors of job thread 1 with destination d whose outcome is in kinds
EndedAs(d, kinds) ==
    {t \in 1..Len(tres[1]) : DestId(all_files[1][t]) = d /\ tres[1][t] \in kinds}

\* C31: a descriptor that ends failed has written no file (a file is at its destination
\* only if another descriptor with that destination ended downloaded); a file is at a
\* destination path only if it was there before the stage or a descriptor with that
\* destination ended downloaded; and a later run fetches for exactly the destinations
\* at which no file was left.
C31_OnlyMissingRetried ==
    /\ \A d \in fs : d \in fs0.fs \/ EndedAs(d, {"downloaded"}) # {}
    /\ \A d \in Dests :
          (EndedAs(d, {"failed"}) # {} /\ EndedAs(d, {"downloaded"}) = {}) => d \notin fs
    /\ (run = 2 /\ ~cfg[1].dry_run /\ Ended(1) /\ ~Raised(1)) =>
          \A d \in Dests : EndedAs(d, {"failed", "downloaded"}) # {} <=> d \notin fs0.fs

====
